----------------------------- MODULE DynuClient -----------------------------
(***************************************************************************)
(* Calls to Dynu (internal/dynu, Client): what a request does to the       *)
(* account, and the client that repeats a request which was not answered.  *)
(* A request may be carried out although its answer is lost.               *)
(***************************************************************************)
EXTENDS Integers

CONSTANTS
    Names,          \* hostnames
    Family,         \* the families of addresses, IPv4 and IPv6
    None,           \* no address of a family
    Homes,          \* what a probe may find this connection's public addresses to be
    Free,           \* the state of a name nobody has
    Theirs,         \* of a name on somebody else's account
    MaxAttempts     \* maxAttempts

\* A name on this account without an address.
Off == [f \in Family |-> None]

ASSUME AccountAssumption ==
    /\ Homes \cap {Free, Theirs, Off} = {}
    /\ Free # Theirs /\ Free # Off /\ Theirs # Off
ASSUME HomesAssumption == \A h \in Homes : DOMAIN h = Family
ASSUME AttemptsAssumption == MaxAttempts \in Nat \ {0}

VARIABLES
    account,        \* what Dynu holds for each name
    tries           \* how many attempts of the present call of each program failed

dynu == <<account, tries>>

NameState == Homes \cup {Free, Theirs, Off}
Ours(n) == account[n] \notin {Free, Theirs}

Request(op, n, a) == [op |-> op, name |-> n, address |-> a]
FindDomain(n) == Request("list", n, Off)
GetDomain(n) == Request("get", n, Off)
Create(n, a) == Request("create", n, a)
UpdateAddresses(n, a) == Request("update", n, a)
Unpublish(n) == Request("update", n, Off)

\* What Dynu does with a request: a new name is created only if nobody has it,
\* also if the account that asks already does.
Granted(r) == IF r.op = "create" THEN account[r.name] = Free ELSE Ours(r.name)
CarriedOut(r) ==
    IF r.op \in {"create", "update"} /\ Granted(r)
    THEN [account EXCEPT ![r.name] = r.address]
    ELSE account

\* do: the request is answered, and the answer is not one that a repetition may
\* change.  A lookup that finds nothing is an answer like any other.
Answered(p, r) ==
    /\ account' = CarriedOut(r)
    /\ tries' = [tries EXCEPT ![p] = 0]

\* The account has no room; Dynu's own code 503, which is not repeated.
Full(p, r) ==
    /\ r.op = "create" /\ Granted(r)
    /\ tries' = [tries EXCEPT ![p] = 0]
    /\ UNCHANGED account

\* Nothing comes back, or an error of the transport or the service: repeated
\* after a while, the last time given up.
Repeated(p, r) ==
    /\ tries[p] + 1 < MaxAttempts
    /\ account' \in {account, CarriedOut(r)}
    /\ tries' = [tries EXCEPT ![p] = @ + 1]

GivenUp(p, r) ==
    /\ tries[p] + 1 = MaxAttempts
    /\ account' \in {account, CarriedOut(r)}
    /\ tries' = [tries EXCEPT ![p] = 0]

\* The user, in Dynu's own pages.
EditedByHand ==
    /\ \E n \in Names : Ours(n) /\ \E s \in {Off, Free} : account' = [account EXCEPT ![n] = s]
    /\ UNCHANGED tries
=============================================================================
