----------------------- MODULE JellyfinSettingsProofs -----------------------
(***************************************************************************)
(* The step that configures Jellyfin, for any addresses and any number of  *)
(* edits by the user, proved with TLAPS.                                   *)
(***************************************************************************)
EXTENDS JellyfinSettings, TLAPS

\* What a step that ends well leaves in the section.
RightFor(url) ==
    /\ Source \in saved.proxies
    /\ url \in saved.published
    /\ saved.on = {"EnableRemoteAccess"}

OneOf(s) == \A u, v \in s.published \cap Urls : u = v

InForce == inForce = saved.on \cap Restarting

\* How far a step that the user has not crossed has got.
HasCopied ==
    pc = "write" =>
        /\ saved = mine
        /\ needsRestart \/ ~WantsRestart(mine)
        /\ owed \/ InForce
HasWritten ==
    pc \in {"verify", "restart", "wait"} =>
        /\ RightFor(want)
        /\ pc = "verify" => owed \/ needsRestart \/ InForce
        /\ pc = "wait" => server # "up" \/ InForce
HasEnded ==
    outcome = "done" =>
        /\ RightFor(want)
        /\ owed \/ InForce \/ server # "up" \/ warned

SettingsInv ==
    /\ TypeOK
    /\ OneOf(saved) /\ OneOf(mine)
    /\ pc # "idle" => outcome = "none"
    /\ ~edited => HasCopied /\ HasWritten /\ HasEnded
    /\ settled \in Urls => RightFor(settled)

\* The section Apply builds is one, has what setup needs, keeps what is the user's
\* and hands out one of RASA's addresses at most.
LEMMA AppliedIsRight ==
    ASSUME NEW s \in Section, want \in Urls
    PROVE  /\ Applied(s) \in Section
           /\ Source \in Applied(s).proxies /\ want \in Applied(s).published
           /\ Applied(s).on = {"EnableRemoteAccess"}
           /\ OneOf(s) => OneOf(Applied(s))
           /\ s.proxies \subseteq Applied(s).proxies
           /\ s.published \ AllClients \subseteq Applied(s).published
<1> USE DEF Applied, Merged, Published, Switched, Section, AllClients, OneOf, Switches
<1>1. Applied(s) \in Section OBVIOUS
<1>2. Applied(s).on = {"EnableRemoteAccess"} OBVIOUS
<1>3. OneOf(s) => OneOf(Applied(s)) BY SettingsAssumption
<1> QED BY <1>1, <1>2, <1>3

\* One that has what setup needs is left as it is.
LEMMA RightIsUnchanged ==
    ASSUME saved \in Section, RightFor(want)
    PROVE  ~Changes(saved)
<1> USE DEF RightFor, Section
<1>1. Merged(saved) = saved.proxies BY DEF Merged
<1>2. Published(saved) = saved.published BY DEF Published
<1>3. Switched(saved) = saved.on BY DEF Switched
<1> QED BY <1>1, <1>2, <1>3 DEF Changes, Applied

LEMMA SettingsInit == Init => SettingsInv
<1> SUFFICES ASSUME Init PROVE SettingsInv
  OBVIOUS
<1>1. saved \in Section /\ mine = saved /\ inForce \subseteq Restarting
  BY DEF Init, Section, AllClients, Restarting
<1>2. saved.published \cap Urls = {} BY SettingsAssumption DEF Init
<1>3. TypeOK
  <2>1. needsRestart \in BOOLEAN /\ warned \in BOOLEAN /\ edited \in BOOLEAN /\ owed \in BOOLEAN
    BY Zenon DEF Init
  <2> QED BY <1>1, <2>1, SettingsAssumption DEF Init, TypeOK
<1>4. OneOf(saved) /\ OneOf(mine) BY <1>1, <1>2 DEF OneOf
<1>5. pc = "idle" /\ outcome = "none" /\ settled \notin Urls
  BY SettingsAssumption DEF Init
<1>6. HasCopied /\ HasWritten /\ HasEnded BY <1>5 DEF HasCopied, HasWritten, HasEnded
<1> QED BY <1>3, <1>4, <1>5, <1>6 DEF SettingsInv

LEMMA SettingsStep == SettingsInv /\ [Next]_vars => SettingsInv'
<1> SUFFICES ASSUME SettingsInv, [Next]_vars PROVE SettingsInv'
  OBVIOUS
<1> USE SettingsAssumption DEF SettingsInv, jellyfin, history
<1>1. CASE Begin
  BY <1>1 DEF Begin, TypeOK, OneOf, HasCopied, HasWritten, HasEnded, RightFor, InForce
<1>2. CASE Read
  <2>1. CASE Fails /\ UNCHANGED history
    BY <1>2, <2>1 DEF Read, Fails, TypeOK, OneOf, HasCopied, HasWritten, HasEnded, RightFor
  <2>2. CASE ~(Fails /\ UNCHANGED history)
    <3>1. /\ mine' = saved /\ saved' = saved /\ edited' = FALSE /\ want' = want
          /\ owed' = (inForce # saved.on \cap Restarting)
          /\ needsRestart' = WantsRestart(saved)
          /\ UNCHANGED <<inForce, server, warned, edits>>
      BY <1>2, <2>2 DEF Read
    <3>2. want \in Urls /\ outcome = "none" /\ pc = "read" BY <1>2 DEF Read, TypeOK
    <3>3. needsRestart' \in BOOLEAN BY <3>1 DEF WantsRestart
    <3>4. owed' \in BOOLEAN /\ (owed' \/ InForce') BY <3>1 DEF InForce
    <3>5. CASE Changes(saved)
      <4>1. pc' = "write" /\ UNCHANGED <<outcome, settled>> BY <1>2, <2>2, <3>5 DEF Read
      <4> QED BY <3>1, <3>2, <3>3, <3>4, <4>1
              DEF TypeOK, OneOf, HasCopied, HasWritten, HasEnded, RightFor
    <3>6. CASE ~Changes(saved)
      <4>1. pc' = "idle" /\ outcome' = "done" /\ settled' = want
        BY <1>2, <2>2, <3>6 DEF Read
      <4>2. saved = Applied(saved) BY <3>6 DEF Changes
      <4>3. RightFor(want) BY <3>2, <4>2, AppliedIsRight DEF RightFor, TypeOK
      <4>4. TypeOK' BY <3>1, <3>2, <3>3, <3>4, <4>1 DEF TypeOK
      <4>5. (HasCopied /\ HasWritten /\ HasEnded)'
        BY <3>1, <3>4, <4>1, <4>3 DEF HasCopied, HasWritten, HasEnded, RightFor
      <4> QED BY <3>1, <4>1, <4>3, <4>4, <4>5 DEF OneOf, RightFor
    <3> QED BY <3>5, <3>6
  <2> QED BY <2>1, <2>2
<1>3. CASE Write
  <2>1. pc = "write" /\ want \in Urls /\ outcome = "none" BY <1>3 DEF Write, TypeOK
  <2>2. settled' = NoUrl /\ UNCHANGED <<inForce, server, edited, owed, edits, want, mine,
                                        needsRestart, warned>>
    BY <1>3 DEF Write, Fails
  <2>3. CASE saved' = Applied(mine)
    <3>1. saved' \in Section /\ OneOf(saved)' /\ RightFor(want)'
      BY <2>1, <2>2, <2>3, AppliedIsRight DEF TypeOK, RightFor, OneOf
    <3>2. \/ pc' = "verify" /\ outcome' = "none"
          \/ pc' = "idle" /\ outcome' = "failed"
      BY <1>3, <2>1 DEF Write, Fails
    <3>3. ~edited => owed \/ needsRestart \/ InForce'
      <4> SUFFICES ASSUME ~edited, ~owed, ~needsRestart PROVE InForce'
        OBVIOUS
      <4>1. InForce /\ saved = mine /\ ~WantsRestart(mine) BY <2>1 DEF HasCopied
      <4> QED BY <4>1, <2>2, <2>3 DEF InForce, WantsRestart, Applied
    <3> QED BY <2>1, <2>2, <3>1, <3>2, <3>3
            DEF TypeOK, OneOf, HasCopied, HasWritten, HasEnded, RightFor
  <2>4. CASE UNCHANGED saved /\ Fails
    BY <2>1, <2>2, <2>4 DEF Fails, TypeOK, OneOf, HasCopied, HasWritten, HasEnded, RightFor
  <2> QED BY <1>3, <2>3, <2>4 DEF Write
<1>4. CASE Verify
  BY <1>4 DEF Verify, Fails, Finishes, TypeOK, OneOf, HasCopied, HasWritten, HasEnded, RightFor,
              InForce
<1>5. CASE Restart
  BY <1>5 DEF Restart, Finishes, TypeOK, OneOf, HasCopied, HasWritten, HasEnded, RightFor, InForce
<1>6. CASE WaitUntilReady
  BY <1>6 DEF WaitUntilReady, Finishes, TypeOK, OneOf, HasCopied, HasWritten, HasEnded, RightFor,
              InForce
<1>7. CASE Quit
  BY <1>7 DEF Quit, TypeOK, OneOf, HasCopied, HasWritten, HasEnded, RightFor, InForce
<1>8. CASE GoesDown
  BY <1>8 DEF GoesDown, wizard, TypeOK, OneOf, HasCopied, HasWritten, HasEnded, RightFor, InForce
<1>9. CASE ComesUp
  <2>1. InForce' /\ inForce' \subseteq Restarting BY <1>9 DEF ComesUp, InForce
  <2> QED BY <1>9, <2>1 DEF ComesUp, wizard, TypeOK, OneOf, HasCopied, HasWritten, HasEnded, RightFor
<1>10. CASE Edit
  <2>1. saved' \in Section /\ OneOf(saved')
    <3>1. saved \in Section BY DEF TypeOK
    <3>2. CASE saved' = [proxies |-> saved.proxies \ {Source}, published |-> {}, on |-> Switches]
      BY <3>1, <3>2 DEF Section, OneOf
    <3>3. CASE saved' = [saved EXCEPT !.proxies = @ \cup {TheirProxy}, !.on = {}]
      BY <3>1, <3>3 DEF Section, OneOf
    <3>4. CASE saved' = [saved EXCEPT !.published = @ \cup {TheirUrl, TheirEntry}]
      <4>1. saved'.published = saved.published \cup {TheirUrl, TheirEntry}
        BY <3>1, <3>4 DEF Section
      <4>2. OneOf(saved') BY <4>1 DEF OneOf
      <4> QED BY <3>1, <3>4, <4>2 DEF Section, AllClients
    <3> QED BY <1>10, <3>2, <3>3, <3>4 DEF Edit
  <2> QED BY <1>10, <2>1 DEF Edit, wizard, TypeOK, OneOf
<1>11. CASE UNCHANGED vars
  BY <1>11 DEF vars, wizard, TypeOK, OneOf, HasCopied, HasWritten, HasEnded, RightFor, InForce
<1> QED BY <1>1, <1>2, <1>3, <1>4, <1>5, <1>6, <1>7, <1>8, <1>9, <1>10, <1>11 DEF Next

LEMMA SettingsInvariant == Spec => []SettingsInv
<1> QED BY SettingsInit, SettingsStep, PTL DEF Spec

\* Type correctness.
THEOREM SettingsTyping == Spec => []TypeOK
<1>1. SettingsInv => TypeOK BY DEF SettingsInv
<1> QED BY <1>1, SettingsInvariant, PTL

\* Clients are handed one of RASA's addresses at most.
THEOREM OneAddressOnly == Spec => []OneAddress
<1>1. SettingsInv => OneAddress BY DEF SettingsInv, OneOf, OneAddress
<1> QED BY <1>1, SettingsInvariant, PTL

\* A step that ended well left what setup needs.
THEOREM DoneIsRight == Spec => []DoneIsSaved
<1>1. SettingsInv => DoneIsSaved BY DEF SettingsInv, HasEnded, RightFor, DoneIsSaved
<1> QED BY <1>1, SettingsInvariant, PTL

\* And the server works by it, or somebody was told.
THEOREM DoneIsInForce == Spec => []InForceOrTold
<1>1. SettingsInv => InForceOrTold BY DEF SettingsInv, HasEnded, InForce, InForceOrTold
<1> QED BY <1>1, SettingsInvariant, PTL

\* The wizard's write keeps the user's proxies and the addresses they gave single
\* subnets, unless they saved the section while it held its copy (jellyfin.Apply).
THEOREM KeepsTheirs == Spec => TheirsIsKept
<1>1. ASSUME SettingsInv, [Next]_vars, ~edited, saved # saved', edits' = edits
      PROVE  /\ saved.proxies \subseteq saved'.proxies
             /\ saved.published \ AllClients \subseteq saved'.published
  <2>1. CASE Write
    <3>1. saved = mine /\ want \in Urls /\ saved' = Applied(mine)
      BY <2>1, <1>1 DEF Write, Fails, SettingsInv, HasCopied, TypeOK
    <3> QED BY <3>1, <1>1, AppliedIsRight DEF SettingsInv, TypeOK
  <2>2. CASE Edit
    BY <2>2, <1>1 DEF Edit, SettingsInv, TypeOK
  <2>3. CASE ~Write /\ ~Edit
    BY <2>3, <1>1 DEF Next, vars, jellyfin, Begin, Read, Verify, Restart, WaitUntilReady, Quit,
                      GoesDown, ComesUp
  <2> QED BY <2>1, <2>2, <2>3
<1>2. SettingsInv /\ [Next]_vars =>
        [~edited /\ saved # saved' /\ edits' = edits =>
            /\ saved.proxies \subseteq saved'.proxies
            /\ saved.published \ AllClients \subseteq saved'.published]_vars
  BY <1>1
<1> QED BY <1>2, SettingsInvariant, PTL DEF Spec, TheirsIsKept

\* A second run finds nothing to write.
THEOREM SecondRunWritesNothing == Spec => SecondRunIsQuiet
<1>1. ASSUME SettingsInv, [Next]_vars, pc = "read", settled = want
      PROVE  pc' # "write"
  <2>1. want \in Urls /\ saved \in Section /\ RightFor(want)
    BY <1>1 DEF SettingsInv, TypeOK
  <2>2. ~Changes(saved) BY <2>1, RightIsUnchanged
  <2> QED BY <2>2, <1>1 DEF Next, vars, wizard, Begin, Read, Fails, Write, Verify, Restart,
                            WaitUntilReady, Quit, GoesDown, ComesUp, Edit
<1>2. SettingsInv /\ [Next]_vars => [pc = "read" /\ settled = want => pc' # "write"]_vars
  BY <1>1
<1> QED BY <1>2, SettingsInvariant, PTL DEF Spec, SecondRunIsQuiet
=============================================================================
