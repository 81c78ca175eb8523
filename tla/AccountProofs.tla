---------------------------- MODULE AccountProofs ----------------------------
(***************************************************************************)
(* The wizard and the sync task sharing a name, a record and a credential, *)
(* for any names, any addresses and any number of attempts of a call,      *)
(* proved with TLAPS.                                                      *)
(***************************************************************************)
EXTENDS Account, TLAPS

ClaimStep == {"find", "update", "create", "confirm"}
SaveStep == {"clear", "rename"}

\* What each program holds at each of its steps.
Holds ==
    /\ wpc \in ClaimStep => typed \in Names
    /\ wpc \notin ClaimStep => typed = NoName
    /\ wpc \in {"removeTimer", "look", "unpublish", "forget", "reset"} => st \in Names
    /\ wpc \notin ClaimStep \cup SaveStep \cup {"save"} => next = "idle"
    /\ wpc \in SaveStep => temp["wizard"] = st
    /\ spc \notin SaveStep => temp["sync"] = Missing
    /\ temp["sync"] \in {sst, Missing}
    /\ wpc \in {"look", "unpublish"} /\ ~kept => ~timer

\* A name that is gone is in nobody's hands: the task may not start before the record
\* was emptied, and then neither the record nor a program that could save it has it.
Gone ==
    removed # NoName =>
        /\ typed # removed
        /\ ~emptied => ~timer /\ wpc # "installTimer" /\ next # "installTimer"
        /\ ~late => /\ account[removed] \notin Homes
                    /\ sst # removed /\ temp["sync"] # removed
                    /\ emptied => removed \notin {file, st, temp["wizard"]}

\* A name that a claim asks for is not on the account, but for its own lost answer.
Asks == wpc = "create" /\ Ours(typed) => lost

AccountInv == TypeOK /\ Holds /\ Gone /\ Asks /\ MissingOnlyInBetween

-----------------------------------------------------------------------------
(* Calls and saves. *)

\* A call that was answered, repeated, given up or refused for want of room.
Call(p, r) == Answered(p, r) \/ Repeated(p, r) \/ GivenUp(p, r) \/ Full(p, r)

\* Putting the temporary file in place, or giving it up, keeps the store's types.
LEMMA StoreTypedWhenDone ==
    ASSUME StoreTypeOK, NEW p \in Process, p \in cleared, cleared' = cleared \ {p},
           temp' = [temp EXCEPT ![p] = Missing], file' \in {file, temp[p]}, gap' \in BOOLEAN
    PROVE  StoreTypeOK'
BY DEF StoreTypeOK

\* Whatever comes of a call, it gives its name the address, or changes nothing, and
\* an update only does so to a name that is on the account.
LEMMA CallEffect ==
    ASSUME TypeOK, NEW p \in Process, NEW op, NEW n \in AnyName, NEW a \in Homes \cup {Off},
           Call(p, Request(op, n, a))
    PROVE  /\ account' \in [Names -> NameState]
           /\ tries' \in [Process -> 0 .. MaxAttempts - 1]
           /\ op \notin {"create", "update"} => account' = account
           /\ \A m \in Names :
                  \/ account'[m] = account[m]
                  \/ m = n /\ account'[m] = a /\ (op = "update" => Ours(m))
<1> DEFINE r == Request(op, n, a)
           then == [account EXCEPT ![n] = a]
<1>1. r.op = op /\ r.name = n /\ r.address = a
  BY DEF Request
<1>2. account' \in {account, CarriedOut(r)}
  BY DEF Call, Answered, Repeated, GivenUp, Full
<1>3. /\ CarriedOut(r) \in {account, then}
      /\ op \notin {"create", "update"} => CarriedOut(r) = account
      /\ CarriedOut(r) # account /\ op = "update" => Ours(n)
  BY <1>1 DEF CarriedOut, Granted
<1> HIDE DEF r
<1>4. account \in [Names -> NameState] /\ then \in [Names -> NameState]
  BY DEF TypeOK, NameState
<1>5. \A m \in Names : then[m] = IF m = n THEN a ELSE account[m]
  BY <1>4
<1>6. tries' \in [Process -> 0 .. MaxAttempts - 1]
  <2>1. MaxAttempts \in Nat \ {0}
    BY AttemptsAssumption
  <2>2. CASE tries' = [tries EXCEPT ![p] = 0]
    BY <2>1, <2>2 DEF TypeOK
  <2>3. CASE tries[p] + 1 < MaxAttempts /\ tries' = [tries EXCEPT ![p] = @ + 1]
    BY <2>1, <2>3 DEF TypeOK
  <2> QED BY <2>2, <2>3 DEF Call, Answered, Repeated, GivenUp, Full
<1> QED BY <1>2, <1>3, <1>4, <1>5, <1>6

\* The record is one of the names, or says there is none.
LEMMA Records == Missing \notin AnyName /\ Record = AnyName
BY RecordAssumption, MissingAssumption DEF AnyName

LEMMA LaunchKeeps ==
    ASSUME AccountInv, Launch
    PROVE  AccountInv'
<1> USE DEF AccountInv, Launch, dynu, store, sync, history, Loaded
<1>1. TypeOK'
  <2>1. StoreTypeOK'
    BY Records DEF TypeOK, StoreTypeOK
  <2>2. /\ account' \in [Names -> NameState] /\ tries' \in [Process -> 0 .. MaxAttempts - 1]
        /\ home' \in Homes /\ seen' \in Homes \cup {Off} /\ sseen' \in Homes \cup {Off}
    BY AttemptsAssumption DEF TypeOK
  <2>3. timer' \in BOOLEAN /\ secret' \in BOOLEAN /\ dyn' \in BOOLEAN
    BY Zenon DEF TypeOK
  <2>4. kept' \in BOOLEAN /\ lost' \in BOOLEAN /\ late' \in BOOLEAN /\ emptied' \in BOOLEAN
    BY Zenon DEF TypeOK
  <2>5. /\ st' \in AnyName /\ claimed' \in AnyName /\ typed' \in AnyName /\ removed' \in AnyName
        /\ next' \in {"idle", "installTimer"}
    BY Records DEF TypeOK, StoreTypeOK, AnyName
  <2>6. /\ wpc' \in {"off", "idle", "save", "clear", "rename", "find", "update", "create", "confirm",
                    "installTimer", "removeTimer", "look", "unpublish", "forget", "reset"}
        /\ spc' \in {"idle", "find", "update", "keep", "clear", "rename"}
    BY DEF TypeOK
  <2>7. sst' \in AnyName /\ (spc' = "idle") = (sst' = NoName)
    BY DEF TypeOK, AnyName
  <2> QED BY <2>1, <2>2, <2>3, <2>4, <2>5, <2>6, <2>7 DEF TypeOK
<1>2. Holds'
  BY Records DEF Holds, TypeOK, StoreTypeOK, ClaimStep, SaveStep
<1>3. Gone'
  BY Records DEF Gone, Holds, TypeOK, StoreTypeOK, ClaimStep, SaveStep
<1>4. Asks'
  BY DEF Asks, Ours, Holds, ClaimStep
<1>5. MissingOnlyInBetween'
  BY Records DEF MissingOnlyInBetween, TypeOK, StoreTypeOK, Holds
<1> QED BY <1>1, <1>2, <1>3, <1>4, <1>5

LEMMA ProbeKeeps ==
    ASSUME AccountInv, Probe
    PROVE  AccountInv'
<1> USE DEF AccountInv, Probe, dynu, store, sync, history
<1>1. TypeOK'
  BY Records DEF TypeOK, StoreTypeOK
<1>2. Holds'
  BY Records DEF Holds, TypeOK, StoreTypeOK, ClaimStep, SaveStep
<1>3. Gone'
  BY Records DEF Gone, Holds, TypeOK, StoreTypeOK, ClaimStep, SaveStep
<1>4. Asks'
  BY DEF Asks, Ours, Holds, ClaimStep
<1>5. MissingOnlyInBetween'
  BY Records DEF MissingOnlyInBetween, TypeOK, StoreTypeOK, Holds
<1> QED BY <1>1, <1>2, <1>3, <1>4, <1>5

LEMMA SetDynuKeyKeeps ==
    ASSUME AccountInv, SetDynuKey
    PROVE  AccountInv'
<1> USE DEF AccountInv, SetDynuKey, dynu, store, sync, history
<1>1. TypeOK'
  BY Records DEF TypeOK, StoreTypeOK
<1>2. Holds'
  BY Records DEF Holds, TypeOK, StoreTypeOK, ClaimStep, SaveStep
<1>3. Gone'
  BY Records DEF Gone, Holds, TypeOK, StoreTypeOK, ClaimStep, SaveStep
<1>4. Asks'
  BY DEF Asks, Ours, Holds, ClaimStep
<1>5. MissingOnlyInBetween'
  BY Records DEF MissingOnlyInBetween, TypeOK, StoreTypeOK, Holds
<1> QED BY <1>1, <1>2, <1>3, <1>4, <1>5

LEMMA InstallTimerKeeps ==
    ASSUME AccountInv, InstallTimer
    PROVE  AccountInv'
<1> USE DEF AccountInv, InstallTimer, dynu, store, sync, history
<1>1. TypeOK'
  <2>1. StoreTypeOK'
    BY Records DEF TypeOK, StoreTypeOK
  <2>2. /\ account' \in [Names -> NameState] /\ tries' \in [Process -> 0 .. MaxAttempts - 1]
        /\ home' \in Homes /\ seen' \in Homes \cup {Off} /\ sseen' \in Homes \cup {Off}
    BY AttemptsAssumption DEF TypeOK
  <2>3. timer' \in BOOLEAN /\ secret' \in BOOLEAN /\ dyn' \in BOOLEAN
    BY Zenon DEF TypeOK
  <2>4. kept' \in BOOLEAN /\ lost' \in BOOLEAN /\ late' \in BOOLEAN /\ emptied' \in BOOLEAN
    BY Zenon DEF TypeOK
  <2>5. /\ st' \in AnyName /\ claimed' \in AnyName /\ typed' \in AnyName /\ removed' \in AnyName
        /\ next' \in {"idle", "installTimer"}
    BY Records DEF TypeOK, StoreTypeOK, AnyName
  <2>6. /\ wpc' \in {"off", "idle", "save", "clear", "rename", "find", "update", "create", "confirm",
                    "installTimer", "removeTimer", "look", "unpublish", "forget", "reset"}
        /\ spc' \in {"idle", "find", "update", "keep", "clear", "rename"}
    BY DEF TypeOK
  <2>7. sst' \in AnyName /\ (spc' = "idle") = (sst' = NoName)
    BY DEF TypeOK, AnyName
  <2> QED BY <2>1, <2>2, <2>3, <2>4, <2>5, <2>6, <2>7 DEF TypeOK
<1>2. Holds'
  BY Records DEF Holds, TypeOK, StoreTypeOK, ClaimStep, SaveStep
<1>3. Gone'
  BY Records DEF Gone, Holds, TypeOK, StoreTypeOK, ClaimStep, SaveStep
<1>4. Asks'
  BY DEF Asks, Ours, Holds, ClaimStep
<1>5. MissingOnlyInBetween'
  BY Records DEF MissingOnlyInBetween, TypeOK, StoreTypeOK, Holds
<1> QED BY <1>1, <1>2, <1>3, <1>4, <1>5

LEMMA RemoveKeeps ==
    ASSUME AccountInv, Remove
    PROVE  AccountInv'
<1> USE DEF AccountInv, Remove, dynu, store, sync, history
<1>1. TypeOK'
  BY Records DEF TypeOK, StoreTypeOK
<1>2. Holds'
  BY DEF Holds, TypeOK, AnyName, ClaimStep, SaveStep
<1>3. Gone'
  BY Records DEF Gone, Holds, TypeOK, StoreTypeOK, ClaimStep, SaveStep
<1>4. Asks'
  BY DEF Asks, Ours, Holds, ClaimStep
<1>5. MissingOnlyInBetween'
  BY Records DEF MissingOnlyInBetween, TypeOK, StoreTypeOK, Holds
<1> QED BY <1>1, <1>2, <1>3, <1>4, <1>5

LEMMA RemoveTimerKeeps ==
    ASSUME AccountInv, RemoveTimer
    PROVE  AccountInv'
<1> USE DEF AccountInv, RemoveTimer, dynu, store, sync, history
<1>1. TypeOK'
  <2>1. StoreTypeOK'
    BY Records DEF TypeOK, StoreTypeOK
  <2>2. /\ account' \in [Names -> NameState] /\ tries' \in [Process -> 0 .. MaxAttempts - 1]
        /\ home' \in Homes /\ seen' \in Homes \cup {Off} /\ sseen' \in Homes \cup {Off}
    BY AttemptsAssumption DEF TypeOK
  <2>3. timer' \in BOOLEAN /\ secret' \in BOOLEAN /\ dyn' \in BOOLEAN
    BY Zenon DEF TypeOK
  <2>4. kept' \in BOOLEAN /\ lost' \in BOOLEAN /\ late' \in BOOLEAN /\ emptied' \in BOOLEAN
    BY Zenon DEF TypeOK
  <2>5. /\ st' \in AnyName /\ claimed' \in AnyName /\ typed' \in AnyName /\ removed' \in AnyName
        /\ next' \in {"idle", "installTimer"}
    BY Records DEF TypeOK, StoreTypeOK, AnyName
  <2>6. /\ wpc' \in {"off", "idle", "save", "clear", "rename", "find", "update", "create", "confirm",
                    "installTimer", "removeTimer", "look", "unpublish", "forget", "reset"}
        /\ spc' \in {"idle", "find", "update", "keep", "clear", "rename"}
    BY DEF TypeOK
  <2>7. sst' \in AnyName /\ (spc' = "idle") = (sst' = NoName)
    BY DEF TypeOK, AnyName
  <2> QED BY <2>1, <2>2, <2>3, <2>4, <2>5, <2>6, <2>7 DEF TypeOK
<1>2. Holds'
  BY Records DEF Holds, TypeOK, StoreTypeOK, ClaimStep, SaveStep
<1>3. Gone'
  BY Records DEF Gone, Holds, TypeOK, StoreTypeOK, ClaimStep, SaveStep
<1>4. Asks'
  BY DEF Asks, Ours, Holds, ClaimStep
<1>5. MissingOnlyInBetween'
  BY Records DEF MissingOnlyInBetween, TypeOK, StoreTypeOK, Holds
<1> QED BY <1>1, <1>2, <1>3, <1>4, <1>5

LEMMA ForgetCredentialKeeps ==
    ASSUME AccountInv, ForgetCredential
    PROVE  AccountInv'
<1> USE DEF AccountInv, ForgetCredential, dynu, store, sync, history
<1>1. TypeOK'
  <2>1. StoreTypeOK'
    BY Records DEF TypeOK, StoreTypeOK
  <2>2. /\ account' \in [Names -> NameState] /\ tries' \in [Process -> 0 .. MaxAttempts - 1]
        /\ home' \in Homes /\ seen' \in Homes \cup {Off} /\ sseen' \in Homes \cup {Off}
    BY AttemptsAssumption DEF TypeOK
  <2>3. timer' \in BOOLEAN /\ secret' \in BOOLEAN /\ dyn' \in BOOLEAN
    BY Zenon DEF TypeOK
  <2>4. kept' \in BOOLEAN /\ lost' \in BOOLEAN /\ late' \in BOOLEAN /\ emptied' \in BOOLEAN
    BY Zenon DEF TypeOK
  <2>5. /\ st' \in AnyName /\ claimed' \in AnyName /\ typed' \in AnyName /\ removed' \in AnyName
        /\ next' \in {"idle", "installTimer"}
    BY Records DEF TypeOK, StoreTypeOK, AnyName
  <2>6. /\ wpc' \in {"off", "idle", "save", "clear", "rename", "find", "update", "create", "confirm",
                    "installTimer", "removeTimer", "look", "unpublish", "forget", "reset"}
        /\ spc' \in {"idle", "find", "update", "keep", "clear", "rename"}
    BY DEF TypeOK
  <2>7. sst' \in AnyName /\ (spc' = "idle") = (sst' = NoName)
    BY DEF TypeOK, AnyName
  <2> QED BY <2>1, <2>2, <2>3, <2>4, <2>5, <2>6, <2>7 DEF TypeOK
<1>2. Holds'
  BY Records DEF Holds, TypeOK, StoreTypeOK, ClaimStep, SaveStep
<1>3. Gone'
  BY Records DEF Gone, Holds, TypeOK, StoreTypeOK, ClaimStep, SaveStep
<1>4. Asks'
  BY DEF Asks, Ours, Holds, ClaimStep
<1>5. MissingOnlyInBetween'
  BY Records DEF MissingOnlyInBetween, TypeOK, StoreTypeOK, Holds
<1> QED BY <1>1, <1>2, <1>3, <1>4, <1>5

LEMMA ResetRecordKeeps ==
    ASSUME AccountInv, ResetRecord
    PROVE  AccountInv'
<1> USE DEF AccountInv, ResetRecord, dynu, store, sync, history
<1>1. TypeOK'
  <2>1. StoreTypeOK'
    BY Records DEF TypeOK, StoreTypeOK
  <2>2. /\ account' \in [Names -> NameState] /\ tries' \in [Process -> 0 .. MaxAttempts - 1]
        /\ home' \in Homes /\ seen' \in Homes \cup {Off} /\ sseen' \in Homes \cup {Off}
    BY AttemptsAssumption DEF TypeOK
  <2>3. timer' \in BOOLEAN /\ secret' \in BOOLEAN /\ dyn' \in BOOLEAN
    BY Zenon DEF TypeOK
  <2>4. kept' \in BOOLEAN /\ lost' \in BOOLEAN /\ late' \in BOOLEAN /\ emptied' \in BOOLEAN
    BY Zenon DEF TypeOK
  <2>5. /\ st' \in AnyName /\ claimed' \in AnyName /\ typed' \in AnyName /\ removed' \in AnyName
        /\ next' \in {"idle", "installTimer"}
    BY Records DEF TypeOK, StoreTypeOK, AnyName
  <2>6. /\ wpc' \in {"off", "idle", "save", "clear", "rename", "find", "update", "create", "confirm",
                    "installTimer", "removeTimer", "look", "unpublish", "forget", "reset"}
        /\ spc' \in {"idle", "find", "update", "keep", "clear", "rename"}
    BY DEF TypeOK
  <2>7. sst' \in AnyName /\ (spc' = "idle") = (sst' = NoName)
    BY DEF TypeOK, AnyName
  <2> QED BY <2>1, <2>2, <2>3, <2>4, <2>5, <2>6, <2>7 DEF TypeOK
<1>2. Holds'
  BY Records DEF Holds, TypeOK, StoreTypeOK, ClaimStep, SaveStep
<1>3. Gone'
  BY Records DEF Gone, Holds, TypeOK, StoreTypeOK, ClaimStep, SaveStep
<1>4. Asks'
  BY DEF Asks, Ours, Holds, ClaimStep
<1>5. MissingOnlyInBetween'
  BY Records DEF MissingOnlyInBetween, TypeOK, StoreTypeOK, Holds
<1> QED BY <1>1, <1>2, <1>3, <1>4, <1>5

LEMMA ClaimingKeeps ==
    ASSUME AccountInv, NEW n \in Names, NEW then \in {"idle", "installTimer"},
           BeginClaim(n, then)
    PROVE  AccountInv'
<1> USE DEF AccountInv, BeginClaim, Claiming, dynu, store, sync
<1>1. TypeOK'
  BY DEF TypeOK, StoreTypeOK, AnyName
<1>2. Holds'
  BY NoNameAssumption DEF Holds, ClaimStep, SaveStep
<1>3. Gone'
  BY NoNameAssumption DEF Gone, Holds
<1>4. Asks'
  BY DEF Asks
<1>5. MissingOnlyInBetween'
  BY DEF MissingOnlyInBetween
<1> QED BY <1>1, <1>2, <1>3, <1>4, <1>5

LEMMA SaveBeginsKeeps ==
    ASSUME AccountInv, SaveBegins
    PROVE  AccountInv'
<1> USE DEF AccountInv, SaveBegins, Begin, Process, dynu, store, sync, history, wizard
<1>1. TypeOK'
  <2>1. StoreTypeOK'
    BY Records DEF TypeOK, StoreTypeOK
  <2>2. /\ account' \in [Names -> NameState] /\ tries' \in [Process -> 0 .. MaxAttempts - 1]
        /\ home' \in Homes /\ seen' \in Homes \cup {Off} /\ sseen' \in Homes \cup {Off}
    BY AttemptsAssumption DEF TypeOK
  <2>3. timer' \in BOOLEAN /\ secret' \in BOOLEAN /\ dyn' \in BOOLEAN
    BY Zenon DEF TypeOK
  <2>4. kept' \in BOOLEAN /\ lost' \in BOOLEAN /\ late' \in BOOLEAN /\ emptied' \in BOOLEAN
    BY Zenon DEF TypeOK
  <2>5. /\ st' \in AnyName /\ claimed' \in AnyName /\ typed' \in AnyName /\ removed' \in AnyName
        /\ next' \in {"idle", "installTimer"}
    BY Records DEF TypeOK, StoreTypeOK, AnyName
  <2>6. /\ wpc' \in {"off", "idle", "save", "clear", "rename", "find", "update", "create", "confirm",
                    "installTimer", "removeTimer", "look", "unpublish", "forget", "reset"}
        /\ spc' \in {"idle", "find", "update", "keep", "clear", "rename"}
    BY DEF TypeOK
  <2>7. sst' \in AnyName /\ (spc' = "idle") = (sst' = NoName)
    BY DEF TypeOK, AnyName
  <2> QED BY <2>1, <2>2, <2>3, <2>4, <2>5, <2>6, <2>7 DEF TypeOK
<1>2. Holds'
  BY Records DEF Holds, TypeOK, StoreTypeOK, ClaimStep, SaveStep
<1>3. Gone'
  BY Records DEF Gone, Holds, TypeOK, StoreTypeOK, ClaimStep, SaveStep
<1>4. Asks'
  BY DEF Asks, TypeOK
<1>5. MissingOnlyInBetween'
  BY Records DEF MissingOnlyInBetween, TypeOK, StoreTypeOK, Holds
<1> QED BY <1>1, <1>2, <1>3, <1>4, <1>5

LEMMA SaveClearsKeeps ==
    ASSUME AccountInv, SaveClears
    PROVE  AccountInv'
<1> USE DEF AccountInv, SaveClears, Clear, Process, dynu, store, sync, history, wizard
<1>1. TypeOK'
  BY Records DEF TypeOK, StoreTypeOK
<1>2. Holds'
  BY Records DEF Holds, TypeOK, StoreTypeOK, ClaimStep, SaveStep
<1>3. Gone'
  BY Records DEF Gone, Holds, TypeOK, StoreTypeOK, ClaimStep, SaveStep
<1>4. Asks'
  BY DEF Asks, Ours, Holds, ClaimStep
<1>5. MissingOnlyInBetween'
  BY Records DEF MissingOnlyInBetween, TypeOK, StoreTypeOK, Holds
<1> QED BY <1>1, <1>2, <1>3, <1>4, <1>5

LEMMA SaveEndsKeeps ==
    ASSUME AccountInv, SaveEnds
    PROVE  AccountInv'
<1> USE DEF AccountInv, SaveEnds, Rename, RenameFails, Done, Process, dynu, store, sync, history, wizard
<1>1. TypeOK'
  <2>1. StoreTypeOK'
    <3>1. gap' \in BOOLEAN BY Zenon
    <3>2. /\ "wizard" \in cleared /\ cleared' = cleared \ {"wizard"}
          /\ temp' = [temp EXCEPT !["wizard"] = Missing] /\ file' \in {file, temp["wizard"]}
      BY Zenon
    <3> QED BY <3>1, <3>2, StoreTypedWhenDone DEF TypeOK
  <2>2. /\ account' \in [Names -> NameState] /\ tries' \in [Process -> 0 .. MaxAttempts - 1]
        /\ home' \in Homes /\ seen' \in Homes \cup {Off} /\ sseen' \in Homes \cup {Off}
    BY AttemptsAssumption DEF TypeOK
  <2>3. timer' \in BOOLEAN /\ secret' \in BOOLEAN /\ dyn' \in BOOLEAN
    BY Zenon DEF TypeOK
  <2>4. kept' \in BOOLEAN /\ lost' \in BOOLEAN /\ late' \in BOOLEAN /\ emptied' \in BOOLEAN
    BY Zenon DEF TypeOK
  <2>5. /\ st' \in AnyName /\ claimed' \in AnyName /\ typed' \in AnyName /\ removed' \in AnyName
        /\ next' \in {"idle", "installTimer"}
    BY Records DEF TypeOK, StoreTypeOK, AnyName
  <2>6. /\ wpc' \in {"off", "idle", "save", "clear", "rename", "find", "update", "create", "confirm",
                    "installTimer", "removeTimer", "look", "unpublish", "forget", "reset"}
        /\ spc' \in {"idle", "find", "update", "keep", "clear", "rename"}
    BY DEF TypeOK
  <2>7. sst' \in AnyName /\ (spc' = "idle") = (sst' = NoName)
    BY DEF TypeOK, AnyName
  <2> QED BY <2>1, <2>2, <2>3, <2>4, <2>5, <2>6, <2>7 DEF TypeOK
<1>2. Holds'
  BY Records DEF Holds, TypeOK, StoreTypeOK, ClaimStep, SaveStep
<1>3. Gone'
  BY Records DEF Gone, Holds, TypeOK, StoreTypeOK, ClaimStep, SaveStep
<1>4. Asks'
  BY DEF Asks, TypeOK
<1>5. MissingOnlyInBetween'
  BY Records DEF MissingOnlyInBetween, TypeOK, StoreTypeOK, Holds
<1> QED BY <1>1, <1>2, <1>3, <1>4, <1>5

LEMMA QuitKeeps ==
    ASSUME AccountInv, Quit
    PROVE  AccountInv'
<1> USE DEF AccountInv, Quit, Abandon, Done, Process, dynu, store, sync, history, wizard
<1>1. TypeOK'
  <2>1. StoreTypeOK'
    BY Records DEF TypeOK, StoreTypeOK
  <2>2. /\ account' \in [Names -> NameState] /\ tries' \in [Process -> 0 .. MaxAttempts - 1]
        /\ home' \in Homes /\ seen' \in Homes \cup {Off} /\ sseen' \in Homes \cup {Off}
    BY AttemptsAssumption DEF TypeOK
  <2>3. timer' \in BOOLEAN /\ secret' \in BOOLEAN /\ dyn' \in BOOLEAN
    BY Zenon DEF TypeOK
  <2>4. kept' \in BOOLEAN /\ lost' \in BOOLEAN /\ late' \in BOOLEAN /\ emptied' \in BOOLEAN
    BY Zenon DEF TypeOK
  <2>5. /\ st' \in AnyName /\ claimed' \in AnyName /\ typed' \in AnyName /\ removed' \in AnyName
        /\ next' \in {"idle", "installTimer"}
    BY Records DEF TypeOK, StoreTypeOK, AnyName
  <2>6. /\ wpc' \in {"off", "idle", "save", "clear", "rename", "find", "update", "create", "confirm",
                    "installTimer", "removeTimer", "look", "unpublish", "forget", "reset"}
        /\ spc' \in {"idle", "find", "update", "keep", "clear", "rename"}
    BY DEF TypeOK
  <2>7. sst' \in AnyName /\ (spc' = "idle") = (sst' = NoName)
    BY DEF TypeOK, AnyName
  <2> QED BY <2>1, <2>2, <2>3, <2>4, <2>5, <2>6, <2>7 DEF TypeOK
<1>2. Holds'
  BY Records DEF Holds, TypeOK, StoreTypeOK, ClaimStep, SaveStep
<1>3. Gone'
  BY Records DEF Gone, Holds, TypeOK, StoreTypeOK, ClaimStep, SaveStep
<1>4. Asks'
  BY DEF Asks, Ours, Holds, ClaimStep
<1>5. MissingOnlyInBetween'
  BY Records DEF MissingOnlyInBetween, TypeOK, StoreTypeOK, Holds
<1> QED BY <1>1, <1>2, <1>3, <1>4, <1>5

LEMMA KeepKeeps ==
    ASSUME AccountInv, Keep
    PROVE  AccountInv'
<1> USE DEF AccountInv, Keep, Begin, SyncEnds, Process, dynu, store, sync, history, wizard
<1>1. TypeOK'
  <2>1. StoreTypeOK'
    BY Records DEF TypeOK, StoreTypeOK
  <2>2. /\ account' \in [Names -> NameState] /\ tries' \in [Process -> 0 .. MaxAttempts - 1]
        /\ home' \in Homes /\ seen' \in Homes \cup {Off} /\ sseen' \in Homes \cup {Off}
    BY AttemptsAssumption DEF TypeOK
  <2>3. timer' \in BOOLEAN /\ secret' \in BOOLEAN /\ dyn' \in BOOLEAN
    BY Zenon DEF TypeOK
  <2>4. kept' \in BOOLEAN /\ lost' \in BOOLEAN /\ late' \in BOOLEAN /\ emptied' \in BOOLEAN
    BY Zenon DEF TypeOK
  <2>5. /\ st' \in AnyName /\ claimed' \in AnyName /\ typed' \in AnyName /\ removed' \in AnyName
        /\ next' \in {"idle", "installTimer"}
    BY Records DEF TypeOK, StoreTypeOK, AnyName
  <2>6. /\ wpc' \in {"off", "idle", "save", "clear", "rename", "find", "update", "create", "confirm",
                    "installTimer", "removeTimer", "look", "unpublish", "forget", "reset"}
        /\ spc' \in {"idle", "find", "update", "keep", "clear", "rename"}
    BY DEF TypeOK
  <2>7. sst' \in AnyName /\ (spc' = "idle") = (sst' = NoName)
    BY DEF TypeOK, AnyName
  <2> QED BY <2>1, <2>2, <2>3, <2>4, <2>5, <2>6, <2>7 DEF TypeOK
<1>2. Holds'
  BY Records DEF Holds, TypeOK, StoreTypeOK, ClaimStep, SaveStep
<1>3. Gone'
  BY Records DEF Gone, Holds, TypeOK, StoreTypeOK, ClaimStep, SaveStep
<1>4. Asks'
  BY DEF Asks, Ours, Holds, ClaimStep
<1>5. MissingOnlyInBetween'
  BY Records DEF MissingOnlyInBetween, TypeOK, StoreTypeOK, Holds
<1> QED BY <1>1, <1>2, <1>3, <1>4, <1>5

LEMMA SyncClearsKeeps ==
    ASSUME AccountInv, SyncClears
    PROVE  AccountInv'
<1> USE DEF AccountInv, SyncClears, Clear, Process, dynu, store, sync, history, wizard
<1>1. TypeOK'
  BY Records DEF TypeOK, StoreTypeOK
<1>2. Holds'
  BY Records DEF Holds, TypeOK, StoreTypeOK, ClaimStep, SaveStep
<1>3. Gone'
  BY Records DEF Gone, Holds, TypeOK, StoreTypeOK, ClaimStep, SaveStep
<1>4. Asks'
  BY DEF Asks, Ours, Holds, ClaimStep
<1>5. MissingOnlyInBetween'
  BY Records DEF MissingOnlyInBetween, TypeOK, StoreTypeOK, Holds
<1> QED BY <1>1, <1>2, <1>3, <1>4, <1>5

LEMMA SyncSavesKeeps ==
    ASSUME AccountInv, SyncSaves
    PROVE  AccountInv'
<1> USE DEF AccountInv, SyncSaves, Rename, RenameFails, Done, SyncEnds, Process, dynu, store, sync, history, wizard
<1>1. TypeOK'
  <2>1. StoreTypeOK'
    <3>1. gap' \in BOOLEAN BY Zenon
    <3>2. /\ "sync" \in cleared /\ cleared' = cleared \ {"sync"}
          /\ temp' = [temp EXCEPT !["sync"] = Missing] /\ file' \in {file, temp["sync"]}
      BY Zenon
    <3> QED BY <3>1, <3>2, StoreTypedWhenDone DEF TypeOK
  <2>2. /\ account' \in [Names -> NameState] /\ tries' \in [Process -> 0 .. MaxAttempts - 1]
        /\ home' \in Homes /\ seen' \in Homes \cup {Off} /\ sseen' \in Homes \cup {Off}
    BY AttemptsAssumption DEF TypeOK
  <2>3. timer' \in BOOLEAN /\ secret' \in BOOLEAN /\ dyn' \in BOOLEAN
    BY Zenon DEF TypeOK
  <2>4. kept' \in BOOLEAN /\ lost' \in BOOLEAN /\ late' \in BOOLEAN /\ emptied' \in BOOLEAN
    BY Zenon DEF TypeOK
  <2>5. /\ st' \in AnyName /\ claimed' \in AnyName /\ typed' \in AnyName /\ removed' \in AnyName
        /\ next' \in {"idle", "installTimer"}
    BY Records DEF TypeOK, StoreTypeOK, AnyName
  <2>6. /\ wpc' \in {"off", "idle", "save", "clear", "rename", "find", "update", "create", "confirm",
                    "installTimer", "removeTimer", "look", "unpublish", "forget", "reset"}
        /\ spc' \in {"idle", "find", "update", "keep", "clear", "rename"}
    BY DEF TypeOK
  <2>7. sst' \in AnyName /\ (spc' = "idle") = (sst' = NoName)
    BY DEF TypeOK, AnyName
  <2> QED BY <2>1, <2>2, <2>3, <2>4, <2>5, <2>6, <2>7 DEF TypeOK
<1>2. Holds'
  BY Records DEF Holds, TypeOK, StoreTypeOK, ClaimStep, SaveStep
<1>3. Gone'
  BY Records DEF Gone, Holds, TypeOK, StoreTypeOK, ClaimStep, SaveStep
<1>4. Asks'
  BY DEF Asks, Ours, Holds, ClaimStep
<1>5. MissingOnlyInBetween'
  BY Records DEF MissingOnlyInBetween, TypeOK, StoreTypeOK, Holds
<1> QED BY <1>1, <1>2, <1>3, <1>4, <1>5

LEMMA SyncKilledKeeps ==
    ASSUME AccountInv, SyncKilled
    PROVE  AccountInv'
<1> USE DEF AccountInv, SyncKilled, Abandon, Done, SyncEnds, Process, dynu, store, sync, history, wizard
<1>1. TypeOK'
  <2>1. StoreTypeOK'
    BY Records DEF TypeOK, StoreTypeOK
  <2>2. /\ account' \in [Names -> NameState] /\ tries' \in [Process -> 0 .. MaxAttempts - 1]
        /\ home' \in Homes /\ seen' \in Homes \cup {Off} /\ sseen' \in Homes \cup {Off}
    BY AttemptsAssumption DEF TypeOK
  <2>3. timer' \in BOOLEAN /\ secret' \in BOOLEAN /\ dyn' \in BOOLEAN
    BY Zenon DEF TypeOK
  <2>4. kept' \in BOOLEAN /\ lost' \in BOOLEAN /\ late' \in BOOLEAN /\ emptied' \in BOOLEAN
    BY Zenon DEF TypeOK
  <2>5. /\ st' \in AnyName /\ claimed' \in AnyName /\ typed' \in AnyName /\ removed' \in AnyName
        /\ next' \in {"idle", "installTimer"}
    BY Records DEF TypeOK, StoreTypeOK, AnyName
  <2>6. /\ wpc' \in {"off", "idle", "save", "clear", "rename", "find", "update", "create", "confirm",
                    "installTimer", "removeTimer", "look", "unpublish", "forget", "reset"}
        /\ spc' \in {"idle", "find", "update", "keep", "clear", "rename"}
    BY DEF TypeOK
  <2>7. sst' \in AnyName /\ (spc' = "idle") = (sst' = NoName)
    BY DEF TypeOK, AnyName
  <2> QED BY <2>1, <2>2, <2>3, <2>4, <2>5, <2>6, <2>7 DEF TypeOK
<1>2. Holds'
  BY Records DEF Holds, TypeOK, StoreTypeOK, ClaimStep, SaveStep
<1>3. Gone'
  BY Records DEF Gone, Holds, TypeOK, StoreTypeOK, ClaimStep, SaveStep
<1>4. Asks'
  BY DEF Asks, Ours, Holds, ClaimStep
<1>5. MissingOnlyInBetween'
  BY Records DEF MissingOnlyInBetween, TypeOK, StoreTypeOK, Holds
<1> QED BY <1>1, <1>2, <1>3, <1>4, <1>5

LEMMA StartKeeps ==
    ASSUME AccountInv, Start
    PROVE  AccountInv'
<1> USE DEF AccountInv, Start, Loaded, wizard, dynu, store, sync, history
<1>1. TypeOK'
  BY Records DEF TypeOK, StoreTypeOK
<1>2. Holds'
  BY Records DEF Holds, TypeOK, StoreTypeOK, ClaimStep, SaveStep
<1>3. Gone'
  BY Records DEF Gone, Holds, TypeOK, StoreTypeOK, ClaimStep, SaveStep
<1>4. Asks'
  BY DEF Asks, Ours, Holds, ClaimStep
<1>5. MissingOnlyInBetween'
  BY Records DEF MissingOnlyInBetween, TypeOK, StoreTypeOK, Holds
<1> QED BY <1>1, <1>2, <1>3, <1>4, <1>5

LEMMA MoveKeeps ==
    ASSUME AccountInv, Move
    PROVE  AccountInv'
<1> USE DEF AccountInv, Move, wizard, dynu, store, sync, history
<1>1. TypeOK'
  BY Records DEF TypeOK, StoreTypeOK
<1>2. Holds'
  BY Records DEF Holds, TypeOK, StoreTypeOK, ClaimStep, SaveStep
<1>3. Gone'
  BY Records DEF Gone, Holds, TypeOK, StoreTypeOK, ClaimStep, SaveStep
<1>4. Asks'
  BY DEF Asks, Ours, Holds, ClaimStep
<1>5. MissingOnlyInBetween'
  BY Records DEF MissingOnlyInBetween, TypeOK, StoreTypeOK, Holds
<1> QED BY <1>1, <1>2, <1>3, <1>4, <1>5

LEMMA EditKeeps ==
    ASSUME AccountInv, Edit
    PROVE  AccountInv'
<1> USE DEF AccountInv, Edit, EditedByHand, wizard, NameState, Ours, dynu, store, sync, history
<1>1. TypeOK'
  BY Records DEF TypeOK, StoreTypeOK
<1>2. Holds'
  BY Records DEF Holds, TypeOK, StoreTypeOK, ClaimStep, SaveStep
<1>3. Gone'
  <2>1. removed # NoName => account'[removed] \in {account[removed], Off, Free}
    BY DEF TypeOK, AnyName
  <2>2. Off \notin Homes /\ Free \notin Homes
    BY AccountAssumption
  <2> QED BY <2>1, <2>2 DEF Gone
<1>4. Asks'
  BY DEF Asks, Ours, Holds, ClaimStep
<1>5. MissingOnlyInBetween'
  BY Records DEF MissingOnlyInBetween, TypeOK, StoreTypeOK, Holds
<1> QED BY <1>1, <1>2, <1>3, <1>4, <1>5

\* What a call does to a name that is gone: nothing, or it takes its address away.
LEMMA GoneFromCall ==
    ASSUME AccountInv, NEW p \in Process, NEW op, NEW n \in AnyName, NEW a \in Homes \cup {Off},
           Call(p, Request(op, n, a)), removed # NoName, n # removed \/ a = Off
    PROVE  account'[removed] \in Homes => account[removed] \in Homes
<1>1. TypeOK /\ removed \in Names
  BY DEF AccountInv, TypeOK, AnyName
<1>2. account'[removed] = account[removed] \/ (removed = n /\ account'[removed] = a)
  <2>1. \A m \in Names :
            \/ account'[m] = account[m]
            \/ m = n /\ account'[m] = a /\ (op = "update" => Ours(m))
    BY <1>1, CallEffect, Zenon
  <2> QED BY <1>1, <2>1
<1>3. Off \notin Homes
  BY AccountAssumption
<1> QED BY <1>2, <1>3

\* No call of the sync task, which only updates, brings a name onto the account.
LEMMA AsksAfterSync ==
    ASSUME AccountInv, NEW op \in {"list", "update"}, NEW n \in AnyName, NEW a \in Homes \cup {Off},
           Call("sync", Request(op, n, a)), UNCHANGED <<wpc, typed, lost>>
    PROVE  Asks'
<1>1. wpc = "create" => typed \in Names
  BY DEF AccountInv, Holds, ClaimStep
<1>2. ASSUME typed \in Names PROVE account'[typed] = account[typed] \/ Ours(typed)
  BY <1>2, CallEffect DEF AccountInv, Process
<1> QED BY <1>1, <1>2 DEF AccountInv, Asks, Ours

LEMMA FindKeeps ==
    ASSUME AccountInv, Find
    PROVE  AccountInv'
<1> USE DEF AccountInv
<1>1. Call("wizard", Request("list", typed, Off))
  BY DEF Find, Call, Unanswered, Leads, ClaimEnds, FindDomain
<1>2. /\ wpc = "find" /\ wpc' \in {"find", "update", "create", "idle"}
      /\ UNCHANGED <<store, home, timer, secret, dyn, seen, kept, sync, history>>
      /\ \/ UNCHANGED <<typed, next, st, claimed>> /\ wpc' \in ClaimStep
         \/ /\ typed' = NoName /\ wpc' = "idle" /\ next' = "idle" /\ UNCHANGED <<st, claimed>>
  BY DEF Find, Unanswered, Leads, ClaimEnds, FindDomain, claim, ClaimStep
<1>3. lost' \in BOOLEAN
  BY Zenon DEF Find, Unanswered, Leads, ClaimEnds, FindDomain, claim, TypeOK
<1>4. typed \in Names /\ typed \in AnyName /\ seen \in Homes \cup {Off} /\ "wizard" \in Process
  BY <1>2 DEF Holds, ClaimStep, AnyName, TypeOK, Process
<1>5. TypeOK'
  <2>1. account' \in [Names -> NameState] /\ tries' \in [Process -> 0 .. MaxAttempts - 1]
    BY <1>1, <1>4, CallEffect
  <2>2. StoreTypeOK'
    BY <1>2 DEF TypeOK, StoreTypeOK, store
  <2> QED BY <1>2, <1>3, <1>4, <2>1, <2>2 DEF TypeOK, AnyName, sync, history
<1>6. Holds'
  BY <1>2, <1>4 DEF Holds, ClaimStep, SaveStep, store, sync
<1>7. Gone'
  <2> SUFFICES ASSUME removed # NoName PROVE Gone'
    BY <1>2 DEF Gone, history
  <2>1. account'[removed] \in Homes => account[removed] \in Homes
    BY <1>1, <1>4, GoneFromCall DEF Gone
  <2> QED BY <1>2, <1>4, <2>1 DEF Gone, store, sync, history, AnyName
<1>8. Asks'
  <2>1. wpc' = "create" => ~Ours(typed) /\ typed' = typed
    BY DEF Find, Unanswered, Leads, ClaimEnds
  <2>2. "list" \notin {"create", "update"} => account' = account
    BY <1>1, <1>4, CallEffect
  <2> QED BY <2>1, <2>2 DEF Asks, Ours
<1>9. MissingOnlyInBetween'
  BY <1>2 DEF MissingOnlyInBetween, store
<1> QED BY <1>5, <1>6, <1>7, <1>8, <1>9

LEMMA UpdateKeeps ==
    ASSUME AccountInv, Update
    PROVE  AccountInv'
<1> USE DEF AccountInv
<1>1. Call("wizard", Request("update", typed, seen))
  BY DEF Update, Call, Unanswered, Leads, ClaimEnds, Taken, UpdateAddresses
<1>2. /\ wpc = "update" /\ wpc' \in {"update", "confirm", "idle"}
      /\ UNCHANGED <<store, home, timer, secret, dyn, seen, kept, sync, history>>
      /\ \/ UNCHANGED <<typed, next, st, claimed>> /\ wpc' \in ClaimStep
         \/ /\ typed' = NoName /\ wpc' = "idle" /\ next' = "idle" /\ UNCHANGED <<st, claimed>>
  BY DEF Update, Unanswered, Leads, ClaimEnds, Taken, UpdateAddresses, claim, ClaimStep
<1>3. lost' \in BOOLEAN
  BY Zenon DEF Update, Unanswered, Leads, ClaimEnds, Taken, UpdateAddresses, claim, TypeOK
<1>4. typed \in Names /\ typed \in AnyName /\ seen \in Homes \cup {Off} /\ "wizard" \in Process
  BY <1>2 DEF Holds, ClaimStep, AnyName, TypeOK, Process
<1>5. TypeOK'
  <2>1. account' \in [Names -> NameState] /\ tries' \in [Process -> 0 .. MaxAttempts - 1]
    BY <1>1, <1>4, CallEffect
  <2>2. StoreTypeOK'
    BY <1>2 DEF TypeOK, StoreTypeOK, store
  <2> QED BY <1>2, <1>3, <1>4, <2>1, <2>2 DEF TypeOK, AnyName, sync, history
<1>6. Holds'
  BY <1>2, <1>4 DEF Holds, ClaimStep, SaveStep, store, sync
<1>7. Gone'
  <2> SUFFICES ASSUME removed # NoName PROVE Gone'
    BY <1>2 DEF Gone, history
  <2>1. account'[removed] \in Homes => account[removed] \in Homes
    BY <1>1, <1>4, GoneFromCall DEF Gone
  <2> QED BY <1>2, <1>4, <2>1 DEF Gone, store, sync, history, AnyName
<1>8. Asks'
  BY <1>2 DEF Asks
<1>9. MissingOnlyInBetween'
  BY <1>2 DEF MissingOnlyInBetween, store
<1> QED BY <1>5, <1>6, <1>7, <1>8, <1>9

LEMMA CreateNameKeeps ==
    ASSUME AccountInv, CreateName
    PROVE  AccountInv'
<1> USE DEF AccountInv
<1>1. Call("wizard", Request("create", typed, seen))
  BY DEF CreateName, Call, ClaimEnds, Taken, Create
<1>2. /\ wpc = "create" /\ wpc' \in {"create", "confirm", "idle"}
      /\ UNCHANGED <<store, home, timer, secret, dyn, seen, kept, sync, history>>
      /\ \/ UNCHANGED <<typed, next, st, claimed>> /\ wpc' \in ClaimStep
         \/ /\ typed' = NoName /\ wpc' = "idle" /\ next' = "idle" /\ UNCHANGED <<st, claimed>>
  BY DEF CreateName, ClaimEnds, Taken, Create, claim, ClaimStep
<1>3. lost' \in BOOLEAN
  BY Zenon DEF CreateName, ClaimEnds, Taken, Create, claim, TypeOK
<1>4. typed \in Names /\ typed \in AnyName /\ seen \in Homes \cup {Off} /\ "wizard" \in Process
  BY <1>2 DEF Holds, ClaimStep, AnyName, TypeOK, Process
<1>5. TypeOK'
  <2>1. account' \in [Names -> NameState] /\ tries' \in [Process -> 0 .. MaxAttempts - 1]
    BY <1>1, <1>4, CallEffect
  <2>2. StoreTypeOK'
    BY <1>2 DEF TypeOK, StoreTypeOK, store
  <2> QED BY <1>2, <1>3, <1>4, <2>1, <2>2 DEF TypeOK, AnyName, sync, history
<1>6. Holds'
  BY <1>2, <1>4 DEF Holds, ClaimStep, SaveStep, store, sync
<1>7. Gone'
  <2> SUFFICES ASSUME removed # NoName PROVE Gone'
    BY <1>2 DEF Gone, history
  <2>1. account'[removed] \in Homes => account[removed] \in Homes
    BY <1>1, <1>4, GoneFromCall DEF Gone
  <2> QED BY <1>2, <1>4, <2>1 DEF Gone, store, sync, history, AnyName
<1>8. Asks'
  <2> SUFFICES ASSUME wpc' = "create", Ours(typed)' PROVE lost'
    BY DEF Asks
  <2>1. typed' = typed /\ lost' = (lost \/ account' # account)
    BY DEF CreateName, ClaimEnds, Taken
  <2>2. CASE account' = account
    BY <1>2, <2>1, <2>2 DEF Asks, Ours
  <2> QED BY <2>1, <2>2
<1>9. MissingOnlyInBetween'
  BY <1>2 DEF MissingOnlyInBetween, store
<1> QED BY <1>5, <1>6, <1>7, <1>8, <1>9

LEMMA ConfirmNameKeeps ==
    ASSUME AccountInv, ConfirmName
    PROVE  AccountInv'
<1> USE DEF AccountInv
<1>1. Call("wizard", Request("get", typed, Off))
  BY DEF ConfirmName, Call, Unanswered, Leads, ClaimEnds, Grant, GetDomain
<1>2. /\ wpc = "confirm" /\ wpc' \in {"confirm", "save", "idle"}
      /\ UNCHANGED <<store, home, timer, secret, dyn, seen, kept, sync, history>>
      /\ \/ UNCHANGED <<typed, next, st, claimed>> /\ wpc' \in ClaimStep
         \/ /\ typed' = NoName /\ wpc' = "idle" /\ next' = "idle" /\ UNCHANGED <<st, claimed>>
         \/ /\ typed' = NoName /\ wpc' = "save" /\ UNCHANGED next
            /\ st' = typed /\ claimed' = typed
  BY DEF ConfirmName, Unanswered, Leads, ClaimEnds, Grant, GetDomain, claim, ClaimStep
<1>3. lost' \in BOOLEAN
  BY Zenon DEF ConfirmName, Unanswered, Leads, ClaimEnds, Grant, GetDomain, claim, TypeOK
<1>4. typed \in Names /\ typed \in AnyName /\ seen \in Homes \cup {Off} /\ "wizard" \in Process
  BY <1>2 DEF Holds, ClaimStep, AnyName, TypeOK, Process
<1>5. TypeOK'
  <2>1. account' \in [Names -> NameState] /\ tries' \in [Process -> 0 .. MaxAttempts - 1]
    BY <1>1, <1>4, CallEffect
  <2>2. StoreTypeOK'
    BY <1>2 DEF TypeOK, StoreTypeOK, store
  <2> QED BY <1>2, <1>3, <1>4, <2>1, <2>2 DEF TypeOK, AnyName, sync, history
<1>6. Holds'
  BY <1>2, <1>4 DEF Holds, ClaimStep, SaveStep, store, sync
<1>7. Gone'
  <2> SUFFICES ASSUME removed # NoName PROVE Gone'
    BY <1>2 DEF Gone, history
  <2>1. account'[removed] \in Homes => account[removed] \in Homes
    BY <1>1, <1>4, GoneFromCall DEF Gone
  <2> QED BY <1>2, <1>4, <2>1 DEF Gone, store, sync, history, AnyName
<1>8. Asks'
  BY <1>2 DEF Asks
<1>9. MissingOnlyInBetween'
  BY <1>2 DEF MissingOnlyInBetween, store
<1> QED BY <1>5, <1>6, <1>7, <1>8, <1>9

LEMMA LookKeeps ==
    ASSUME AccountInv, Look
    PROVE  AccountInv'
<1> USE DEF AccountInv
<1>1. Call("wizard", Request("list", st, Off))
  BY DEF Look, Call, FindDomain
<1>2. /\ wpc = "look" /\ wpc' \in {"look", "unpublish", "forget"}
      /\ UNCHANGED <<store, home, timer, secret, st, dyn, claimed, seen, kept, sync, history,
                     typed, next, lost>>
  BY DEF Look, claim
<1>3. st \in Names /\ st \in AnyName /\ "wizard" \in Process
  BY <1>2 DEF Holds, AnyName, Process
<1>4. /\ account' \in [Names -> NameState] /\ tries' \in [Process -> 0 .. MaxAttempts - 1]
      /\ removed # NoName => (account'[removed] \in Homes => account[removed] \in Homes)
  BY <1>1, <1>3, CallEffect, GoneFromCall
<1>5. TypeOK'
  <2>1. StoreTypeOK'
    BY <1>2 DEF TypeOK, StoreTypeOK, store
  <2> QED BY <1>2, <1>4, <2>1 DEF TypeOK, sync, history
<1>6. Holds'
  BY <1>2 DEF Holds, ClaimStep, SaveStep, store, sync
<1>7. Gone'
  BY <1>2, <1>4 DEF Gone, store, sync, history
<1>8. Asks'
  BY <1>2 DEF Asks
<1>9. MissingOnlyInBetween'
  BY <1>2 DEF MissingOnlyInBetween, store
<1> QED BY <1>5, <1>6, <1>7, <1>8, <1>9

LEMMA ClearAddressKeeps ==
    ASSUME AccountInv, ClearAddress
    PROVE  AccountInv'
<1> USE DEF AccountInv
<1>1. Call("wizard", Request("update", st, Off))
  BY DEF ClearAddress, Call, Unpublish
<1>2. /\ wpc = "unpublish" /\ wpc' \in {"unpublish", "forget"}
      /\ UNCHANGED <<store, home, timer, secret, st, dyn, claimed, seen, typed, next, kept, lost,
                     sync>>
      /\ \/ UNCHANGED history
         \/ /\ ~kept /\ removed' = st /\ late' = (spc # "idle") /\ emptied' = FALSE
            /\ Granted(Unpublish(st)) /\ Answered("wizard", Unpublish(st))
  BY DEF ClearAddress
<1>3. st \in Names /\ st \in AnyName /\ "wizard" \in Process
  BY <1>2 DEF Holds, AnyName, Process
<1>4. /\ account' \in [Names -> NameState] /\ tries' \in [Process -> 0 .. MaxAttempts - 1]
      /\ removed # NoName => (account'[removed] \in Homes => account[removed] \in Homes)
  BY <1>1, <1>3, CallEffect, GoneFromCall
<1>5. TypeOK'
  <2>1. StoreTypeOK'
    BY <1>2 DEF TypeOK, StoreTypeOK, store
  <2>2. late' \in BOOLEAN /\ emptied' \in BOOLEAN
    BY <1>2, Zenon DEF TypeOK, history
  <2>3. removed' \in AnyName
    BY <1>2, <1>3 DEF TypeOK, history
  <2> QED BY <1>2, <1>4, <2>1, <2>2, <2>3 DEF TypeOK, sync
<1>6. Holds'
  BY <1>2 DEF Holds, ClaimStep, SaveStep, store, sync
<1>7. Gone'
  <2>1. CASE UNCHANGED history
    BY <1>2, <1>4, <2>1 DEF Gone, store, sync, history
  <2>2. CASE /\ ~kept /\ removed' = st /\ late' = (spc # "idle") /\ emptied' = FALSE
             /\ Granted(Unpublish(st)) /\ Answered("wizard", Unpublish(st))
    <3>1. account' = [account EXCEPT ![st] = Off]
      BY <2>2 DEF Answered, CarriedOut, Unpublish, Request
    <3>2. account'[st] = Off /\ Off \notin Homes
      BY <3>1, <1>3, AccountAssumption DEF TypeOK
    <3>3. ~timer /\ next = "idle" /\ typed = NoName
      BY <1>2, <2>2 DEF Holds, ClaimStep, SaveStep
    <3>4. st # NoName /\ st # Missing
      BY <1>3, NoNameAssumption, Records
    <3>5. ~late' => sst = NoName /\ temp["sync"] = Missing
      BY <2>2 DEF TypeOK, Holds, SaveStep
    <3> QED BY <1>2, <2>2, <3>2, <3>3, <3>4, <3>5 DEF Gone, store, sync
  <2> QED BY <1>2, <2>1, <2>2
<1>8. Asks'
  BY <1>2 DEF Asks
<1>9. MissingOnlyInBetween'
  BY <1>2 DEF MissingOnlyInBetween, store
<1> QED BY <1>5, <1>6, <1>7, <1>8, <1>9

LEMMA SyncFindKeeps ==
    ASSUME AccountInv, SyncFind
    PROVE  AccountInv'
<1> USE DEF AccountInv
<1>1. Call("sync", Request("list", sst, Off))
  BY DEF SyncFind, Call, SyncFinds, SyncUnanswered, FindDomain
<1>2. /\ spc = "find" /\ spc' \in {"find", "update", "keep"} /\ sseen' \in {sseen, Off}
      /\ UNCHANGED <<store, home, timer, secret, wizard, sst, history>>
  BY DEF SyncFind, SyncFinds, SyncUnanswered, FindDomain, Proceeds, round
<1>3. sst \in AnyName /\ sst # NoName /\ sseen \in Homes \cup {Off} /\ "sync" \in Process
  BY <1>2 DEF TypeOK, Process
<1>4. account' \in [Names -> NameState] /\ tries' \in [Process -> 0 .. MaxAttempts - 1]
  BY <1>1, <1>3, CallEffect
<1>5. TypeOK'
  <2>1. StoreTypeOK'
    BY <1>2 DEF TypeOK, StoreTypeOK, store
  <2> QED BY <1>2, <1>3, <1>4, <2>1 DEF TypeOK, wizard, history
<1>6. Holds'
  BY <1>2 DEF Holds, ClaimStep, SaveStep, store, wizard
<1>7. Gone'
  <2> SUFFICES ASSUME removed # NoName PROVE Gone'
    BY <1>2 DEF Gone, history
  <2>1. ~late => (account'[removed] \in Homes => account[removed] \in Homes)
    BY <1>1, <1>3, GoneFromCall DEF Gone
  <2> QED BY <1>2, <2>1 DEF Gone, store, wizard, history
<1>8. Asks'
  BY <1>1, <1>2, <1>3, AsksAfterSync DEF wizard
<1>9. MissingOnlyInBetween'
  BY <1>2 DEF MissingOnlyInBetween, store
<1> QED BY <1>5, <1>6, <1>7, <1>8, <1>9

LEMMA SyncUpdateKeeps ==
    ASSUME AccountInv, SyncUpdate
    PROVE  AccountInv'
<1> USE DEF AccountInv
<1>1. Call("sync", Request("update", sst, sseen))
  BY DEF SyncUpdate, Call, SyncUpdates, SyncUnanswered, UpdateAddresses
<1>2. /\ spc = "update" /\ spc' \in {"update", "keep"} /\ sseen' \in {sseen, Off}
      /\ UNCHANGED <<store, home, timer, secret, wizard, sst, history>>
  BY DEF SyncUpdate, SyncUpdates, SyncUnanswered, UpdateAddresses, Proceeds, round
<1>3. sst \in AnyName /\ sst # NoName /\ sseen \in Homes \cup {Off} /\ "sync" \in Process
  BY <1>2 DEF TypeOK, Process
<1>4. account' \in [Names -> NameState] /\ tries' \in [Process -> 0 .. MaxAttempts - 1]
  BY <1>1, <1>3, CallEffect
<1>5. TypeOK'
  <2>1. StoreTypeOK'
    BY <1>2 DEF TypeOK, StoreTypeOK, store
  <2> QED BY <1>2, <1>3, <1>4, <2>1 DEF TypeOK, wizard, history
<1>6. Holds'
  BY <1>2 DEF Holds, ClaimStep, SaveStep, store, wizard
<1>7. Gone'
  <2> SUFFICES ASSUME removed # NoName PROVE Gone'
    BY <1>2 DEF Gone, history
  <2>1. ~late => (account'[removed] \in Homes => account[removed] \in Homes)
    BY <1>1, <1>3, GoneFromCall DEF Gone
  <2> QED BY <1>2, <2>1 DEF Gone, store, wizard, history
<1>8. Asks'
  BY <1>1, <1>2, <1>3, AsksAfterSync DEF wizard
<1>9. MissingOnlyInBetween'
  BY <1>2 DEF MissingOnlyInBetween, store
<1> QED BY <1>5, <1>6, <1>7, <1>8, <1>9

-----------------------------------------------------------------------------
(* The invariant, and what it gives. *)

LEMMA InitHolds == Init => AccountInv
<1> SUFFICES ASSUME Init PROVE AccountInv
  OBVIOUS
<1>1. TypeOK
  <2>1. StoreTypeOK
    BY DEF Init, StoreInit, StoreTypeOK
  <2>2. account \in [Names -> NameState]
    BY DEF Init, NameState
  <2>3. tries \in [Process -> 0 .. MaxAttempts - 1]
    BY AttemptsAssumption DEF Init
  <2>4. NoName \in AnyName
    BY DEF AnyName
  <2> QED BY <2>1, <2>2, <2>3, <2>4 DEF Init, TypeOK
<1>2. Holds
  BY DEF Init, StoreInit, Holds, ClaimStep, SaveStep, Process
<1>3. Gone /\ Asks
  BY DEF Init, Gone, Asks
<1>4. MissingOnlyInBetween
  BY DEF Init, StoreInit, MissingOnlyInBetween
<1> QED BY <1>1, <1>2, <1>3, <1>4 DEF AccountInv

LEMMA AccountStep == AccountInv /\ [Next]_vars => AccountInv'
<1> SUFFICES ASSUME AccountInv, [Next]_vars PROVE AccountInv'
  OBVIOUS
<1>1. CASE UNCHANGED vars
  BY <1>1 DEF vars, dynu, store, wizard, sync, history, AccountInv, TypeOK, StoreTypeOK, Holds,
              Gone, Asks, Ours, MissingOnlyInBetween
<1>2. CASE Wizard
  <2>1. CASE ClaimName
    BY <2>1, ClaimingKeeps DEF ClaimName
  <2>2. CASE Install
    <3>1. st \in Names
      BY <2>2 DEF Install, AccountInv, TypeOK, AnyName
    <3> QED BY <2>2, <3>1, ClaimingKeeps DEF Install
  <2> QED BY <1>2, <2>1, <2>2, LaunchKeeps, ProbeKeeps, SetDynuKeyKeeps, SaveBeginsKeeps,
             SaveClearsKeeps, SaveEndsKeeps, FindKeeps, UpdateKeeps, CreateNameKeeps,
             ConfirmNameKeeps, InstallTimerKeeps, RemoveKeeps, RemoveTimerKeeps, LookKeeps,
             ClearAddressKeeps, ForgetCredentialKeeps, ResetRecordKeeps DEF Wizard
<1>3. CASE Sync
  BY <1>3, StartKeeps, SyncFindKeeps, SyncUpdateKeeps, KeepKeeps, SyncClearsKeeps,
     SyncSavesKeeps DEF Sync
<1>4. CASE Quit \/ SyncKilled \/ Move \/ Edit
  BY <1>4, QuitKeeps, SyncKilledKeeps, MoveKeeps, EditKeeps
<1> QED BY <1>1, <1>2, <1>3, <1>4 DEF Next

LEMMA AccountInvariant == Spec => []AccountInv
<1> QED BY InitHolds, AccountStep, PTL DEF Spec

\* What the two programs, their record and the account hold is of the kind each of
\* them expects, whichever is killed where (state.Store, cmd/rasa-sync run).
THEOREM AccountTyping == Spec => []TypeOK
<1>1. AccountInv => TypeOK
  BY DEF AccountInv
<1> QED BY <1>1, AccountInvariant, PTL

\* There is no record only before the first save and while one is being replaced, or
\* after that was cut off between its two steps (state.Store.Save).
THEOREM MissingInBetween == Spec => []MissingOnlyInBetween
<1>1. AccountInv => MissingOnlyInBetween
  BY DEF AccountInv
<1> QED BY <1>1, AccountInvariant, PTL

\* A name reported as no longer pointing here, by a removal that took the sync task
\* away, does not point here again, and the emptied record stays empty of it, unless
\* a round of the task was running at that moment (Wizard.RemoveRemoteAccess, ddns.Syncer.RunOnce).
THEOREM RemovalHolds == Spec => []RemovalSticks
<1>1. AccountInv => RemovalSticks
  BY DEF AccountInv, Gone, RemovalSticks
<1> QED BY <1>1, AccountInvariant, PTL

\* A name is called taken only if it is not on the account, or the answer to this
\* claim's own request was lost (dynu.Client.CreateDomain).
THEOREM TakenIsTaken == Spec => TakenMeansTaken
<1>1. AccountInv /\ [Next]_vars => [ToldTaken => ~Ours(typed) \/ lost]_vars
  <2> SUFFICES ASSUME AccountInv, ToldTaken PROVE ~Ours(typed) \/ lost
    OBVIOUS
  <2>1. CASE wpc = "update" /\ Taken(UpdateAddresses(typed, seen))
    BY <2>1 DEF Taken, Granted, UpdateAddresses, Request
  <2>2. CASE wpc = "create" /\ Taken(Create(typed, seen))
    BY <2>2 DEF AccountInv, Asks
  <2> QED BY <2>1, <2>2 DEF ToldTaken
<1> QED BY <1>1, AccountInvariant, PTL DEF Spec, TakenMeansTaken

-----------------------------------------------------------------------------
(* The record the two programs share. *)

\* A program that is putting a record in place holds it, and no other program has a
\* temporary file.
Hands ==
    /\ temp["wizard"] = IF wpc \in SaveStep THEN st ELSE Missing
    /\ temp["sync"] = IF spc \in SaveStep THEN sst ELSE Missing

\* What the abstract record has, in terms of the steps of the two programs.
LEMMA SavingIs ==
    ASSUME AccountInv, Hands
    PROVE  /\ "wizard" \in saving <=> wpc \in SaveStep
           /\ "sync" \in saving <=> spc \in SaveStep
           /\ held["wizard"] = st /\ held["sync"] = sst
           /\ temp \in [Process -> Record \cup {Missing}]
<1>1. st \in AnyName /\ sst \in AnyName /\ temp \in [Process -> Record \cup {Missing}]
  BY DEF AccountInv, TypeOK, StoreTypeOK
<1>2. Missing \notin AnyName
  BY Records
<1> QED BY <1>1, <1>2 DEF Hands, saving, held, Process

\* What a change of one program's record or of its temporary file is to the abstract
\* record.
LEMMA HeldMoves ==
    /\ sst' = sst => held' = [held EXCEPT !["wizard"] = st']
    /\ st' = st => held' = [held EXCEPT !["sync"] = sst']
    /\ st' = st /\ sst' = sst => held' = held
<1>1. "wizard" \in Process /\ "sync" \in Process /\ Process = {"wizard", "sync"}
  BY DEF Process
<1>2. ASSUME sst' = sst PROVE held' = [held EXCEPT !["wizard"] = st']
  BY <1>1, <1>2 DEF held
<1>3. ASSUME st' = st PROVE held' = [held EXCEPT !["sync"] = sst']
  BY <1>1, <1>3 DEF held
<1>4. ASSUME st' = st, sst' = sst PROVE held' = held
  BY <1>4 DEF held
<1> QED BY <1>2, <1>3, <1>4

LEMMA SavingMoves ==
    ASSUME AccountInv, NEW p \in Process
    PROVE  /\ temp' = temp => saving' = saving
           /\ temp' = [temp EXCEPT ![p] = Missing] => saving' = saving \ {p}
           /\ \A r \in Record : temp' = [temp EXCEPT ![p] = r] => saving' = saving \cup {p}
<1>1. temp \in [Process -> Record \cup {Missing}] /\ Missing \notin Record
  BY MissingAssumption DEF AccountInv, TypeOK, StoreTypeOK
<1>2. ASSUME temp' = temp PROVE saving' = saving
  BY <1>2 DEF saving
<1>3. ASSUME temp' = [temp EXCEPT ![p] = Missing] PROVE saving' = saving \ {p}
  BY <1>1, <1>3 DEF saving
<1>4. ASSUME NEW r \in Record, temp' = [temp EXCEPT ![p] = r] PROVE saving' = saving \cup {p}
  BY <1>1, <1>4 DEF saving
<1> QED BY <1>2, <1>3, <1>4

\* Where neither a record nor a temporary file changes, neither does the abstract
\* record.
LEMMA NothingShared ==
    ASSUME UNCHANGED <<file, temp, st, sst>>
    PROVE  UNCHANGED Shared!vars
BY DEF Shared!vars, held, saving

LEMMA SharedStep ==
    AccountInv /\ Hands /\ [Next]_vars => Hands' /\ [Shared!Next]_(Shared!vars)
<1> SUFFICES ASSUME AccountInv, Hands, [Next]_vars
             PROVE  Hands' /\ (Shared!Next \/ UNCHANGED Shared!vars)
  OBVIOUS
<1>p. "wizard" \in Process /\ "sync" \in Process /\ Shared!Process = Process
  BY DEF Process, Shared!Process
<1>t. /\ st \in Record /\ sst \in Record /\ NoName \in Record /\ Missing \notin Record
      /\ file \in Record \cup {Missing} /\ typed \in Record
      /\ temp \in [Process -> Record \cup {Missing}]
  BY Records DEF AccountInv, TypeOK, StoreTypeOK, AnyName
<1>s. /\ "wizard" \in saving <=> wpc \in SaveStep
      /\ "sync" \in saving <=> spc \in SaveStep
      /\ held["wizard"] = st /\ held["sync"] = sst
  BY SavingIs
<1>1. CASE \/ Probe \/ SetDynuKey \/ ClaimName \/ Install \/ Find \/ Update \/ CreateName
           \/ InstallTimer \/ Remove \/ RemoveTimer \/ Look \/ ClearAddress \/ ForgetCredential
           \/ SyncFind \/ SyncUpdate \/ Move \/ Edit \/ UNCHANGED vars
  <2> USE DEF SaveStep
  <2>1. CASE \/ Probe \/ SetDynuKey \/ ClaimName \/ Install \/ InstallTimer \/ Remove \/ RemoveTimer
             \/ ForgetCredential
    BY <2>1, NothingShared
       DEF Probe, SetDynuKey, ClaimName, Install, BeginClaim, Claiming, InstallTimer, Remove,
           RemoveTimer, ForgetCredential, store, sync, Hands
  <2>2. CASE Find \/ Update \/ CreateName \/ Look \/ ClearAddress
    <3>1. UNCHANGED <<store, st, sync>>
      BY <2>2 DEF Find, Update, CreateName, Look, ClearAddress, claim
    <3>2. wpc \notin SaveStep /\ wpc' \notin SaveStep
      BY <2>2 DEF Find, Update, CreateName, Look, ClearAddress, Leads, ClaimEnds, Unanswered, Taken
    <3> QED BY <3>1, <3>2, NothingShared DEF store, sync, Hands
  <2>3. CASE SyncFind \/ SyncUpdate
    <3>1. UNCHANGED <<store, wizard, sst>>
      BY <2>3 DEF SyncFind, SyncUpdate, round
    <3>2. spc \notin SaveStep /\ spc' \notin SaveStep
      BY <2>3 DEF SyncFind, SyncUpdate, SyncFinds, SyncUpdates, SyncUnanswered, Proceeds, SaveStep
    <3> QED BY <3>1, <3>2, NothingShared DEF store, wizard, Hands
  <2>4. CASE Move \/ Edit \/ UNCHANGED vars
    BY <2>4, NothingShared DEF Move, Edit, vars, store, wizard, sync, Hands
  <2> QED BY <1>1, <2>1, <2>2, <2>3, <2>4
<1>2. CASE Launch \/ ConfirmName \/ ResetRecord
  <2>1. /\ UNCHANGED <<file, temp, sst, spc>>
        /\ wpc \notin SaveStep /\ wpc' \notin SaveStep
    BY <1>2 DEF Launch, ConfirmName, Grant, ClaimEnds, Unanswered, Leads, ResetRecord, store,
                sync, SaveStep
  <2>2. st' \in Record
    BY <1>2, <1>t DEF Launch, Loaded, ConfirmName, Grant, ResetRecord
  <2>3. Hands'
    BY <2>1 DEF Hands
  <2>4. held' = [held EXCEPT !["wizard"] = st'] /\ saving' = saving
    BY <2>1, <1>p, HeldMoves, SavingMoves
  <2>5. Shared!Decide
    BY <2>1, <2>2, <2>4, <1>s DEF Shared!Decide
  <2> QED BY <2>3, <2>5 DEF Shared!Next
<1>3. CASE SaveBegins
  <2>1. CASE Begin("wizard", st) /\ wpc' = "clear"
    <3>1. /\ UNCHANGED <<file, st, sst, spc>> /\ wpc \notin SaveStep /\ wpc' \in SaveStep
          /\ temp' = [temp EXCEPT !["wizard"] = st]
      BY <1>3, <2>1 DEF SaveBegins, Begin, sync, SaveStep
    <3>2. Hands'
      BY <3>1, <1>t, <1>p DEF Hands
    <3>3. held' = held /\ saving' = saving \cup {"wizard"}
      BY <3>1, <1>p, <1>t, HeldMoves, SavingMoves
    <3>4. Shared!Begin("wizard")
      BY <3>1, <3>3, <1>s DEF Shared!Begin
    <3> QED BY <3>2, <3>4, <1>p DEF Shared!Next
  <2>2. CASE UNCHANGED store /\ wpc' = next
    <3>1. UNCHANGED <<file, temp, st, sst, spc>> /\ wpc \notin SaveStep /\ wpc' \notin SaveStep
      BY <1>3, <2>2 DEF SaveBegins, store, sync, SaveStep, AccountInv, TypeOK
    <3> QED BY <3>1, NothingShared DEF Hands
  <2> QED BY <1>3, <2>1, <2>2 DEF SaveBegins
<1>4. CASE SaveClears
  <2>1. /\ UNCHANGED <<temp, st, sst, spc>> /\ wpc \in SaveStep /\ wpc' \in SaveStep
        /\ file' \in {Missing, file}
    BY <1>4 DEF SaveClears, Clear, sync, SaveStep
  <2>2. Hands'
    BY <2>1 DEF Hands
  <2>3. held' = held /\ saving' = saving
    BY <2>1, <1>p, HeldMoves, SavingMoves
  <2>4. file' = Missing => Shared!Clear("wizard")
    BY <2>1, <2>3, <1>s DEF Shared!Clear
  <2> QED BY <2>1, <2>2, <2>4, <1>p, NothingShared DEF Shared!Next
<1>5. CASE SaveEnds \/ Quit
  <2>1. /\ UNCHANGED <<sst, spc>> /\ wpc' \notin SaveStep
        /\ temp' = [temp EXCEPT !["wizard"] = Missing]
        /\ st' \in {st, NoName}
        /\ \/ wpc \in SaveStep /\ file' = temp["wizard"]
           \/ file' = file
    <3>1. CASE SaveEnds
      BY <1>5, <3>1 DEF SaveEnds, Rename, RenameFails, Done, sync, SaveStep, AccountInv, TypeOK
    <3>2. CASE Quit
      BY <1>5, <3>2 DEF Quit, Abandon, Done, sync, SaveStep
    <3> QED BY <1>5, <3>1, <3>2
  <2>2. Hands'
    BY <2>1, <1>t, <1>p DEF Hands
  <2>3. held' \in {held, [held EXCEPT !["wizard"] = NoName]} /\ saving' = saving \ {"wizard"}
    BY <2>1, <1>p, HeldMoves, SavingMoves
  <2>4. CASE wpc \in SaveStep /\ file' = temp["wizard"]
    <3>1. Shared!Replace("wizard")
      BY <2>3, <2>4, <1>s DEF Shared!Replace, Shared!LetsGo, Hands
    <3> QED BY <2>2, <3>1, <1>p DEF Shared!Next
  <2>5. CASE file' = file
    <3>1. Shared!Stop("wizard")
      BY <2>3, <2>5 DEF Shared!Stop, Shared!LetsGo
    <3> QED BY <2>2, <3>1, <1>p DEF Shared!Next
  <2> QED BY <2>1, <2>4, <2>5
<1>6. CASE Start
  <2>1. /\ UNCHANGED <<file, temp, st, wpc>> /\ spc \notin SaveStep /\ spc' \notin SaveStep
        /\ file # Missing /\ sst' = file
    BY <1>6 DEF Start, Loaded, store, wizard, SaveStep
  <2>2. Hands'
    BY <2>1 DEF Hands
  <2>3. held' = [held EXCEPT !["sync"] = file] /\ saving' = saving
    BY <2>1, <1>p, HeldMoves, SavingMoves
  <2>4. Shared!Read
    BY <2>1, <2>3, <1>s DEF Shared!Read
  <2> QED BY <2>2, <2>4 DEF Shared!Next
<1>7. CASE Keep
  <2>1. CASE Begin("sync", sst) /\ spc' = "clear" /\ UNCHANGED sst
    <3>1. /\ UNCHANGED <<file, st, sst, wpc>> /\ spc \notin SaveStep /\ spc' \in SaveStep
          /\ temp' = [temp EXCEPT !["sync"] = sst]
      BY <1>7, <2>1 DEF Keep, Begin, wizard, SaveStep
    <3>2. Hands'
      BY <3>1, <1>t, <1>p DEF Hands
    <3>3. held' = held /\ saving' = saving \cup {"sync"}
      BY <3>1, <1>p, <1>t, HeldMoves, SavingMoves
    <3>4. Shared!Begin("sync")
      BY <3>1, <3>3, <1>s DEF Shared!Begin
    <3> QED BY <3>2, <3>4, <1>p DEF Shared!Next
  <2>2. CASE UNCHANGED store /\ SyncEnds
    <3>1. /\ UNCHANGED <<file, temp, st, wpc>> /\ spc \notin SaveStep /\ spc' \notin SaveStep
          /\ sst' = NoName
      BY <1>7, <2>2 DEF Keep, SyncEnds, store, wizard, SaveStep
    <3>2. Hands'
      BY <3>1 DEF Hands
    <3>3. held' = [held EXCEPT !["sync"] = NoName] /\ saving' = saving
      BY <3>1, <1>p, HeldMoves, SavingMoves
    <3>4. Shared!Stop("sync")
      BY <3>1, <3>3, <1>s DEF Shared!Stop, Shared!LetsGo
    <3> QED BY <3>2, <3>4, <1>p DEF Shared!Next
  <2> QED BY <1>7, <2>1, <2>2 DEF Keep
<1>8. CASE SyncClears
  <2>1. /\ UNCHANGED <<temp, st, sst, wpc>> /\ spc \in SaveStep /\ spc' \in SaveStep
        /\ file' \in {Missing, file}
    BY <1>8 DEF SyncClears, Clear, wizard, SaveStep
  <2>2. Hands'
    BY <2>1 DEF Hands
  <2>3. held' = held /\ saving' = saving
    BY <2>1, <1>p, HeldMoves, SavingMoves
  <2>4. file' = Missing => Shared!Clear("sync")
    BY <2>1, <2>3, <1>s DEF Shared!Clear
  <2> QED BY <2>1, <2>2, <2>4, <1>p, NothingShared DEF Shared!Next
<1>9. CASE SyncSaves \/ SyncKilled
  <2>1. /\ UNCHANGED <<st, wpc>> /\ spc' \notin SaveStep /\ sst' = NoName
        /\ temp' = [temp EXCEPT !["sync"] = Missing]
        /\ \/ spc \in SaveStep /\ file' = temp["sync"]
           \/ file' = file
    <3>1. CASE SyncSaves
      BY <1>9, <3>1 DEF SyncSaves, SyncEnds, Rename, RenameFails, Done, wizard, SaveStep
    <3>2. CASE SyncKilled
      BY <1>9, <3>2 DEF SyncKilled, SyncEnds, Abandon, Done, wizard, SaveStep
    <3> QED BY <1>9, <3>1, <3>2
  <2>2. Hands'
    BY <2>1, <1>t, <1>p DEF Hands
  <2>3. held' \in {held, [held EXCEPT !["sync"] = NoName]} /\ saving' = saving \ {"sync"}
    BY <2>1, <1>p, HeldMoves, SavingMoves
  <2>4. CASE spc \in SaveStep /\ file' = temp["sync"]
    <3>1. Shared!Replace("sync")
      BY <2>3, <2>4, <1>s DEF Shared!Replace, Shared!LetsGo, Hands
    <3> QED BY <2>2, <3>1, <1>p DEF Shared!Next
  <2>5. CASE file' = file
    <3>1. Shared!Stop("sync")
      BY <2>3, <2>5 DEF Shared!Stop, Shared!LetsGo
    <3> QED BY <2>2, <3>1, <1>p DEF Shared!Next
  <2> QED BY <2>1, <2>4, <2>5
<1> QED BY <1>1, <1>2, <1>3, <1>4, <1>5, <1>6, <1>7, <1>8, <1>9 DEF Next, Wizard, Sync

\* The file is at every moment a record one of the two programs held as it began to
\* save it, or it is missing after a save that was under way: whatever falls between
\* the steps of the two saves, nothing is mixed and nothing of what is being saved
\* changes (state.Store.Save, called by Wizard.save and by keepPortOpen).
THEOREM SavesImplementSharing == Spec => RecordIsShared
<1>1. Init => Shared!Init /\ Hands
  <2> SUFFICES ASSUME Init PROVE Shared!Init /\ Hands
    OBVIOUS
  <2>1. /\ file = Missing /\ temp = [p \in Process |-> Missing]
        /\ wpc = "off" /\ spc = "idle" /\ st = NoName /\ sst = NoName
    BY DEF Init, StoreInit
  <2>2. Hands
    BY <2>1 DEF Hands, Process, SaveStep
  <2>3. held = [p \in Process |-> NoName] /\ saving = {}
    BY <2>1 DEF held, saving
  <2> QED BY <2>1, <2>2, <2>3 DEF Shared!Init, Shared!Process, Process
<1>2. AccountInv /\ Hands /\ [Next]_vars => Hands' /\ [Shared!Next]_(Shared!vars)
  BY SharedStep
<1> QED BY <1>1, <1>2, AccountInvariant, PTL DEF Spec, RecordIsShared, Shared!Spec

-----------------------------------------------------------------------------
(* How long an operation, or a round, can take. *)

\* How many kinds of step an operation of the wizard, or a round of the sync task,
\* has at most ahead of it.
Ahead ==
    CASE wpc \in {"off", "idle"} -> 0
      [] wpc = "installTimer" -> 1
      [] wpc = "rename" -> 2
      [] wpc = "clear" -> 3
      [] wpc = "save" -> 4
      [] wpc \in {"reset", "confirm"} -> 5
      [] wpc \in {"forget", "create", "update"} -> 6
      [] wpc \in {"unpublish", "find"} -> 7
      [] wpc = "look" -> 8
      [] wpc = "removeTimer" -> 9

RoundAhead ==
    CASE spc = "idle" -> 0
      [] spc = "rename" -> 1
      [] spc = "clear" -> 2
      [] spc = "keep" -> 3
      [] spc = "update" -> 4
      [] spc = "find" -> 5

\* Every step of a running operation, and of a running round, leads on for good or is
\* one more of the few attempts a call is given, whatever Dynu answers and however
\* the two programs interleave.
ProgramsRunOut ==
    [][/\ (Wizard \/ Quit) /\ wpc \notin {"off", "idle"} =>
              \/ Ahead' < Ahead
              \/ Ahead' = Ahead /\ tries'["wizard"] > tries["wizard"]
       /\ (Sync \/ SyncKilled) /\ spc # "idle" =>
              \/ RoundAhead' < RoundAhead
              \/ RoundAhead' = RoundAhead /\ tries'["sync"] > tries["sync"]
       /\ \A p \in Process : tries'[p] < MaxAttempts]_vars

\* A call that is not answered counts as one more attempt, or ends.
LEMMA OneMoreAttempt ==
    ASSUME TypeOK, NEW p \in Process, NEW r, Repeated(p, r)
    PROVE  tries'[p] > tries[p]
<1>1. tries[p] \in Int BY AttemptsAssumption DEF TypeOK
<1>2. tries'[p] = tries[p] + 1 BY DEF Repeated, TypeOK
<1> QED BY <1>1, <1>2

\* No operation of the wizard and no round of the sync task goes on for ever: what
\* may be repeated is one call, and only MaxAttempts times (dynu.Client.do), and no
\* step leads back to one before it.
THEOREM ProgramsAreFinite == Spec => ProgramsRunOut
<1> DEFINE W == \/ Ahead' < Ahead
                \/ Ahead' = Ahead /\ tries'["wizard"] > tries["wizard"]
           S == \/ RoundAhead' < RoundAhead
                \/ RoundAhead' = RoundAhead /\ tries'["sync"] > tries["sync"]
<1>p. "wizard" \in Process /\ "sync" \in Process BY DEF Process
<1>1. ASSUME AccountInv, Wizard \/ Quit, wpc \notin {"off", "idle"} PROVE W
  <2> USE DEF Ahead
  <2>t. TypeOK BY <1>1 DEF AccountInv
  <2>1. CASE SaveBegins
    BY <2>1, <2>t DEF SaveBegins, TypeOK
  <2>2. CASE SaveClears
    BY <2>2 DEF SaveClears
  <2>3. CASE SaveEnds
    BY <2>3, <2>t DEF SaveEnds, TypeOK
  <2>4. CASE Quit
    <3>1. Ahead' = 0 BY <2>4 DEF Quit
    <3>2. Ahead \in 1..9 BY <1>1, <2>t DEF TypeOK
    <3> HIDE DEF Ahead
    <3> QED BY <3>1, <3>2
  <2>5. CASE Find
    <3>1. wpc = "find" /\ (wpc' \in {"update", "create", "idle"}
                           \/ (wpc' = wpc /\ tries'["wizard"] > tries["wizard"]))
      BY <2>5, <2>t, <1>p, OneMoreAttempt DEF Find, Unanswered, Leads, ClaimEnds
    <3> QED BY <3>1
  <2>6. CASE Update
    <3>1. wpc = "update" /\ (wpc' \in {"confirm", "idle"}
                             \/ (wpc' = wpc /\ tries'["wizard"] > tries["wizard"]))
      BY <2>6, <2>t, <1>p, OneMoreAttempt DEF Update, Taken, Unanswered, Leads, ClaimEnds
    <3> QED BY <3>1
  <2>7. CASE CreateName
    <3>1. wpc = "create" /\ (wpc' \in {"confirm", "idle"}
                             \/ (wpc' = wpc /\ tries'["wizard"] > tries["wizard"]))
      BY <2>7, <2>t, <1>p, OneMoreAttempt DEF CreateName, Taken, ClaimEnds
    <3> QED BY <3>1
  <2>8. CASE ConfirmName
    <3>1. wpc = "confirm" /\ (wpc' \in {"save", "idle"}
                              \/ (wpc' = wpc /\ tries'["wizard"] > tries["wizard"]))
      BY <2>8, <2>t, <1>p, OneMoreAttempt DEF ConfirmName, Grant, Unanswered, Leads, ClaimEnds
    <3> QED BY <3>1
  <2>9. CASE InstallTimer \/ ForgetCredential \/ ResetRecord
    <3>1. \/ wpc = "installTimer" /\ wpc' = "idle"
          \/ wpc = "forget" /\ wpc' = "reset"
          \/ wpc = "reset" /\ wpc' = "save"
      BY <2>9, Zenon DEF InstallTimer, ForgetCredential, ResetRecord
    <3> QED BY <3>1
  <2>10. CASE RemoveTimer
    BY <2>10 DEF RemoveTimer
  <2>11. CASE Look
    <3>1. wpc = "look" /\ (wpc' \in {"unpublish", "forget"}
                           \/ (wpc' = wpc /\ tries'["wizard"] > tries["wizard"]))
      BY <2>11, <2>t, <1>p, OneMoreAttempt DEF Look
    <3> QED BY <3>1
  <2>12. CASE ClearAddress
    <3>1. wpc = "unpublish" /\ (wpc' = "forget"
                                \/ (wpc' = wpc /\ tries'["wizard"] > tries["wizard"]))
      BY <2>12, <2>t, <1>p, OneMoreAttempt DEF ClearAddress
    <3> QED BY <3>1
  <2>13. CASE Launch \/ Probe \/ SetDynuKey \/ ClaimName \/ Install \/ Remove
    BY <1>1, <2>13 DEF Launch, Probe, SetDynuKey, ClaimName, Install, BeginClaim, Claiming, Remove
  <2> QED BY <1>1, <2>1, <2>2, <2>3, <2>4, <2>5, <2>6, <2>7, <2>8, <2>9, <2>10, <2>11, <2>12,
             <2>13 DEF Wizard
<1>2. ASSUME AccountInv, Sync \/ SyncKilled, spc # "idle" PROVE S
  <2> USE DEF RoundAhead
  <2>t. TypeOK BY <1>2 DEF AccountInv
  <2>1. CASE SyncFind
    <3>1. spc = "find" /\ (spc' \in {"update", "keep"}
                           \/ (spc' = spc /\ tries'["sync"] > tries["sync"]))
      BY <2>1, <2>t, <1>p, OneMoreAttempt DEF SyncFind, SyncFinds, SyncUnanswered, Proceeds
    <3> QED BY <3>1
  <2>2. CASE SyncUpdate
    <3>1. spc = "update" /\ (spc' = "keep"
                             \/ (spc' = spc /\ tries'["sync"] > tries["sync"]))
      BY <2>2, <2>t, <1>p, OneMoreAttempt DEF SyncUpdate, SyncUpdates, SyncUnanswered, Proceeds
    <3> QED BY <3>1
  <2>3. CASE Keep \/ SyncClears \/ SyncSaves
    BY <2>3 DEF Keep, SyncClears, SyncSaves, SyncEnds
  <2>4. CASE SyncKilled
    <3>1. RoundAhead' = 0 BY <2>4 DEF SyncKilled, SyncEnds
    <3>2. RoundAhead \in 1..5 BY <1>2, <2>t DEF TypeOK
    <3> HIDE DEF RoundAhead
    <3> QED BY <3>1, <3>2
  <2>5. ~Start
    BY <1>2 DEF Start
  <2> QED BY <1>2, <2>1, <2>2, <2>3, <2>4, <2>5 DEF Sync
<1>3. ASSUME AccountInv, [Next]_vars PROVE \A p \in Process : tries'[p] < MaxAttempts
  <2>1. TypeOK' BY <1>3, AccountStep DEF AccountInv
  <2>2. MaxAttempts \in Nat /\ tries' \in [Process -> 0 .. MaxAttempts - 1]
    BY <2>1, AttemptsAssumption DEF TypeOK
  <2> QED BY <2>2
<1> HIDE DEF W, S
<1>4. AccountInv /\ [Next]_vars =>
        [/\ (Wizard \/ Quit) /\ wpc \notin {"off", "idle"} => W
         /\ (Sync \/ SyncKilled) /\ spc # "idle" => S
         /\ \A p \in Process : tries'[p] < MaxAttempts]_vars
  BY <1>1, <1>2, <1>3
<1> USE DEF W, S
<1> QED BY <1>4, AccountInvariant, PTL DEF Spec, ProgramsRunOut
=============================================================================
