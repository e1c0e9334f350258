-------------------------- MODULE ConfigFlow_proofs --------------------------
(***************************************************************************)
(* Proofs about ConfigFlow for every set of devices and flows.  The type    *)
(* invariant carries what the flows hold: advertisements of the device the  *)
(* flow is about, and only such as classify() accepts.  OneOffer is         *)
(* inductive given it: a discovery starts only for a device with no entry   *)
(* and no discovery, and whatever makes an entry ends the discoveries.      *)
(***************************************************************************)
EXTENDS ConfigFlow, TLAPS

Inv == TypeOK /\ OneOffer

\* Whatever classify() makes of an advertisement of a device is the protocol it speaks,
\* unless it is a cooler's and the name is missing from it.
LEMMA ClassifyIsTruthful ==
    ASSUME NEW a \in Addresses, NEW info, Usable(a, info)
    PROVE  Classify(info) = Speaks(a) \/ (a \in Coolers /\ info.name = "")
<1>1. CASE a \in Coolers
    BY <1>1 DEF Usable, Adverts, Advert, Classify, Speaks
<1>2. CASE a \notin Coolers /\ a \in FreshJets
    BY <1>2 DEF Usable, Adverts, Advert, Classify, Speaks, Company
<1>3. CASE a \notin Coolers /\ a \notin FreshJets
    BY <1>3 DEF Usable, Adverts, Advert, Classify, Speaks, Company
<1>4. QED BY <1>1, <1>2, <1>3

\* Making an entry of a device keeps the invariant: the entry is ignored or made from a
\* usable advertisement, and no discovery of the device is left.
LEMMA FinishKeepsInv ==
    ASSUME Inv, NEW f \in Flows, NEW a \in Addresses, NEW made, Finish(f, a, made),
           made = Ignored \/ \E info \in Adverts(a) : Usable(a, info) /\ made = EntryFor(a, info)
    PROVE  Inv'
<1>1. TypeOK'
  <2>1. heard' = heard /\ entry' = [b \in Addresses |-> IF b = a THEN made ELSE entry[b]]
    BY DEF Finish, Inv, TypeOK
  <2>2. \A b \in Addresses : (entry[b] \in {Nothing, Ignored} \/ AddedOK(b))'
    BY <2>1 DEF Inv, TypeOK, AddedOK
  <2>3. ASSUME NEW g \in Flows PROVE (flow[g] = Idle \/ ConfirmOK(g) \/ UserOK(g))'
    <3>1. flow'[g] \in {Idle, flow[g]}
      BY DEF Finish
    <3>2. QED BY <3>1 DEF Inv, TypeOK, ConfirmOK, UserOK, AtUser
  <2>4. flow' = [g \in Flows |-> flow'[g]]
    BY DEF Finish
  <2>5. QED BY <2>1, <2>2, <2>3, <2>4 DEF Inv, TypeOK
<1>2. OneOffer'
  <2>1. ASSUME NEW g \in Flows, AtConfirm(g)'
        PROVE  flow'[g] = flow[g] /\ AtConfirm(g) /\ flow[g].address # a
    BY <2>1 DEF Finish, AtConfirm, Idle
  <2>2. \A g \in Flows : AtConfirm(g) => flow[g].address \in Addresses
    BY DEF Inv, TypeOK, ConfirmOK, UserOK, AtUser, AtConfirm, Confirm, Idle
  <2>3. \A b \in Addresses : b # a => entry'[b] = entry[b]
    BY DEF Finish, Inv, TypeOK
  <2>4. QED BY <2>1, <2>2, <2>3 DEF OneOffer, Inv
<1>3. QED BY <1>1, <1>2 DEF Inv

\* A flow that goes back to idle keeps the invariant.
LEMMA AbortKeepsInv ==
    ASSUME Inv, NEW f \in Flows, Abort(f)
    PROVE  Inv'
<1>1. heard' = heard /\ entry' = entry /\ flow' = [flow EXCEPT ![f] = Idle]
    BY DEF Abort
<1>2. \A g \in Flows : flow'[g] = (IF g = f THEN Idle ELSE flow[g])
    BY <1>1 DEF Inv, TypeOK
<1>3. TypeOK'
  <2>1. \A g \in Flows : (flow[g] = Idle \/ ConfirmOK(g) \/ UserOK(g))'
    BY <1>2 DEF Inv, TypeOK, ConfirmOK, UserOK, AtUser
  <2>2. \A b \in Addresses : (entry[b] \in {Nothing, Ignored} \/ AddedOK(b))'
    BY <1>1 DEF Inv, TypeOK, AddedOK
  <2>3. flow' = [g \in Flows |-> flow'[g]]
    BY <1>1 DEF Inv, TypeOK
  <2>4. QED BY <1>1, <2>1, <2>2, <2>3 DEF Inv, TypeOK
<1>4. OneOffer'
    BY <1>1, <1>2 DEF Inv, OneOffer, AtConfirm, Idle
<1>5. QED BY <1>3, <1>4 DEF Inv

\* A device heard, lost or removed changes no flow.
LEMMA DevicesKeepInv ==
    ASSUME Inv, NEW a \in Addresses, Advertise(a) \/ OutOfRange(a) \/ RemoveEntry(a)
    PROVE  Inv'
<1>1. flow' = flow
    BY DEF Advertise, OutOfRange, RemoveEntry
<1>2. \A f \in Flows : (flow[f] = Idle \/ ConfirmOK(f) \/ UserOK(f))'
    BY <1>1 DEF Inv, TypeOK, ConfirmOK, UserOK, AtUser
<1>3. CASE Advertise(a) \/ OutOfRange(a)
  <2>1. entry' = entry
    BY <1>3 DEF Advertise, OutOfRange
  <2>2. /\ heard' = [b \in Addresses |-> heard'[b]]
        /\ \A b \in Addresses : heard'[b] \in Adverts(b) \cup {Nothing}
    BY <1>3 DEF Advertise, OutOfRange, Inv, TypeOK
  <2>3. \A b \in Addresses : (entry[b] \in {Nothing, Ignored} \/ AddedOK(b))'
    BY <2>1 DEF Inv, TypeOK, AddedOK
  <2>4. TypeOK'
    BY <1>1, <1>2, <2>1, <2>2, <2>3 DEF Inv, TypeOK
  <2>5. OneOffer'
    BY <1>1, <2>1 DEF Inv, OneOffer, AtConfirm
  <2>6. QED BY <2>4, <2>5 DEF Inv
<1>4. CASE RemoveEntry(a)
  <2>1. heard' = heard /\ entry' = [b \in Addresses |-> IF b = a THEN Nothing ELSE entry[b]]
    BY <1>4 DEF RemoveEntry, Inv, TypeOK
  <2>2. \A b \in Addresses : (entry[b] \in {Nothing, Ignored} \/ AddedOK(b))'
    BY <2>1 DEF Inv, TypeOK, AddedOK
  <2>3. TypeOK'
    BY <1>1, <1>2, <2>1, <2>2 DEF Inv, TypeOK
  <2>4. \A f \in Flows : AtConfirm(f) => flow[f].address \in Addresses
    BY DEF Inv, TypeOK, ConfirmOK, UserOK, AtUser, AtConfirm, Confirm, Idle
  <2>5. OneOffer'
    BY <1>1, <2>1, <2>4 DEF Inv, OneOffer, AtConfirm
  <2>6. QED BY <2>3, <2>5 DEF Inv
<1>5. QED BY <1>3, <1>4

\* A discovery starts with a usable advertisement of a device that has no other.
LEMMA StepBluetoothKeepsInv ==
    ASSUME Inv, NEW f \in Flows, NEW a \in Addresses, StepBluetooth(f, a)
    PROVE  Inv'
<1>1. heard' = heard /\ entry' = entry
    BY DEF StepBluetooth
<1>2. flow' = [g \in Flows |-> IF g = f THEN Confirm(a, heard[a]) ELSE flow[g]]
    BY DEF StepBluetooth, Inv, TypeOK
<1>3. Usable(a, heard[a])
    BY DEF StepBluetooth, Silent, Usable, Inv, TypeOK
<1>4. TypeOK'
  <2>1. \A g \in Flows : (flow[g] = Idle \/ ConfirmOK(g) \/ UserOK(g))'
    BY <1>2, <1>3 DEF Inv, TypeOK, ConfirmOK, UserOK, AtUser, Usable
  <2>2. \A b \in Addresses : (entry[b] \in {Nothing, Ignored} \/ AddedOK(b))'
    BY <1>1 DEF Inv, TypeOK, AddedOK
  <2>3. QED BY <1>1, <1>2, <2>1, <2>2 DEF Inv, TypeOK
<1>5. OneOffer'
  <2>1. entry[a] = Nothing /\ \A g \in Flows : AtConfirm(g) => flow[g].address # a
    BY DEF StepBluetooth, InProgress
  <2>2. Confirm(a, heard[a]).address = a
    BY DEF Confirm
  <2>3. QED BY <1>1, <1>2, <2>1, <2>2 DEF Inv, OneOffer, AtConfirm
<1>6. QED BY <1>4, <1>5 DEF Inv

\* Listing keeps what a list holds usable.
LEMMA StepUserKeepsInv ==
    ASSUME Inv, NEW f \in Flows, StepUser(f)
    PROVE  Inv'
<1> DEFINE old == IF AtUser(f) THEN flow[f].discovered ELSE [a \in Addresses |-> Nothing]
           list == Listed(old)
<1>1. heard' = heard /\ entry' = entry
    BY DEF StepUser
<1>2. flow' = [g \in Flows |-> IF g = f THEN Picking(list) ELSE flow[g]]
    BY DEF StepUser, Inv, TypeOK
<1>3. \A a \in Addresses : old[a] = Nothing \/ Usable(a, old[a])
    BY DEF Inv, TypeOK, ConfirmOK, UserOK, AtUser, Confirm, Idle
<1>4. DOMAIN list = Addresses /\ \A a \in Addresses : list[a] = Nothing \/ Usable(a, list[a])
    BY <1>3 DEF Listed, Offered, Silent, Usable, Inv, TypeOK
<1>5. TypeOK'
  <2> HIDE DEF list
  <2>1. \A g \in Flows : (flow[g] = Idle \/ ConfirmOK(g) \/ UserOK(g))'
    BY <1>2, <1>4 DEF Inv, TypeOK, ConfirmOK, UserOK, AtUser, Picking
  <2>2. \A b \in Addresses : (entry[b] \in {Nothing, Ignored} \/ AddedOK(b))'
    BY <1>1 DEF Inv, TypeOK, AddedOK
  <2>3. QED BY <1>1, <1>2, <2>1, <2>2 DEF Inv, TypeOK
<1>6. OneOffer'
    BY <1>1, <1>2 DEF Inv, OneOffer, AtConfirm, Picking
<1>7. QED BY <1>5, <1>6 DEF Inv

\* What a confirm form holds.
LEMMA ConfirmHolds ==
    ASSUME Inv, NEW f \in Flows, AtConfirm(f)
    PROVE  flow[f].address \in Addresses /\ Usable(flow[f].address, flow[f].discovery)
BY DEF Inv, TypeOK, ConfirmOK, UserOK, AtUser, AtConfirm, Confirm, Idle

\* What a list offers.
LEMMA ListHolds ==
    ASSUME Inv, NEW f \in Flows, AtUser(f), NEW a \in Addresses,
           flow[f].discovered[a] # Nothing
    PROVE  Usable(a, flow[f].discovered[a])
BY DEF Inv, TypeOK, ConfirmOK, UserOK, AtUser, Confirm, Idle

\* Every step keeps the invariant.
LEMMA StepKeepsInv == Inv /\ [Next]_vars => Inv'
<1> SUFFICES ASSUME Inv, [Next]_vars PROVE Inv'
    OBVIOUS
<1>1. ASSUME NEW a \in Addresses, Advertise(a) \/ OutOfRange(a) \/ RemoveEntry(a) PROVE Inv'
    BY <1>1, DevicesKeepInv
<1>2. ASSUME NEW f \in Flows, StepBluetoothConfirm(f) PROVE Inv'
    BY <1>2, ConfirmHolds, FinishKeepsInv DEF StepBluetoothConfirm, Usable
<1>3. ASSUME NEW f \in Flows, StepUser(f) PROVE Inv'
    BY <1>3, StepUserKeepsInv
<1>4. ASSUME NEW f \in Flows, Dismiss(f) PROVE Inv'
    BY <1>4, AbortKeepsInv DEF Dismiss
<1>5. ASSUME NEW f \in Flows, Ignore(f) PROVE Inv'
    BY <1>5, ConfirmHolds, FinishKeepsInv DEF Ignore
<1>6. ASSUME NEW f \in Flows, NEW a \in Addresses, StepBluetooth(f, a) PROVE Inv'
    BY <1>6, StepBluetoothKeepsInv
<1>7. ASSUME NEW f \in Flows, NEW a \in Addresses, StepUserSubmit(f, a) PROVE Inv'
  <2>1. CASE Added(a)
    BY <1>7, <2>1, AbortKeepsInv DEF StepUserSubmit
  <2>2. CASE ~Added(a)
    BY <1>7, <2>2, ListHolds, FinishKeepsInv DEF StepUserSubmit, Usable
  <2>3. QED BY <2>1, <2>2
<1>8. CASE UNCHANGED vars
    BY <1>8 DEF vars, Inv, TypeOK, OneOffer, ConfirmOK, UserOK, AddedOK, AtUser, AtConfirm
<1>9. QED BY <1>1, <1>2, <1>3, <1>4, <1>5, <1>6, <1>7, <1>8 DEF Next

\* The invariant holds in every reachable state.
THEOREM Inductive == Spec => []Inv
<1>1. Init => Inv
    BY DEF Init, Inv, TypeOK, OneOffer, AtConfirm, Idle
<1>2. QED BY <1>1, StepKeepsInv, PTL DEF Spec

\* Flows hold only advertisements of their device that classify() accepts, and entries are
\* made from nothing else.
THEOREM TypeCorrect == Spec => []TypeOK
<1>1. Inv => TypeOK BY DEF Inv
<1>2. QED BY <1>1, Inductive, PTL

\* Home Assistant offers a device once at most and never one with an entry.
THEOREM OfferedOnce == Spec => []OneOffer
<1>1. Inv => OneOffer BY DEF Inv
<1>2. QED BY <1>1, Inductive, PTL

\* An entry has the protocol of its device; only a cooler shown by its address may not.
THEOREM ProtocolIsRight == Spec => []RightProtocol
<1>1. Inv => RightProtocol
  <2> SUFFICES ASSUME Inv, NEW a \in Addresses, Added(a)
               PROVE  entry[a].protocol = Speaks(a) \/ (a \in Coolers /\ entry[a].title = a)
    BY DEF RightProtocol
  <2>1. PICK info \in Adverts(a) : Usable(a, info) /\ entry[a] = EntryFor(a, info)
    BY DEF Inv, TypeOK, AddedOK, Added
  <2>2. entry[a].protocol = Classify(info) /\ entry[a].title = Title(a, info)
    BY <2>1 DEF EntryFor
  <2>3. Classify(info) = Speaks(a) \/ (a \in Coolers /\ info.name = "")
    BY <2>1, ClassifyIsTruthful
  <2>4. QED BY <2>2, <2>3 DEF Title
<1>2. QED BY <1>1, Inductive, PTL

\* No flow replaces the entry of a device that was added.
THEOREM EntriesStay == Spec => NoEntryReplaced
<1>1. Inv /\ [Next]_vars =>
        [\A a \in Addresses : Added(a) => entry'[a] \in {entry[a], Nothing}]_vars
  <2> SUFFICES ASSUME Inv, Next, NEW a \in Addresses, Added(a)
               PROVE  entry'[a] \in {entry[a], Nothing}
    OBVIOUS
  <2>1. ASSUME NEW b \in Addresses, Advertise(b) \/ OutOfRange(b) \/ RemoveEntry(b)
        PROVE  entry'[a] \in {entry[a], Nothing}
    BY <2>1 DEF Advertise, OutOfRange, RemoveEntry, Inv, TypeOK
  <2>2. ASSUME NEW f \in Flows, StepBluetoothConfirm(f) \/ Ignore(f)
        PROVE  entry'[a] \in {entry[a], Nothing}
    <3>1. AtConfirm(f) /\ \E made : Finish(f, flow[f].address, made)
      BY <2>2 DEF StepBluetoothConfirm, Ignore
    <3>2. flow[f].address # a
      BY <3>1 DEF Inv, OneOffer, Added
    <3>3. QED BY <3>1, <3>2 DEF Finish, Inv, TypeOK
  <2>3. ASSUME NEW f \in Flows, NEW b \in Addresses, StepUserSubmit(f, b)
        PROVE  entry'[a] \in {entry[a], Nothing}
    <3>1. CASE b = a
      BY <2>3, <3>1 DEF StepUserSubmit, Abort
    <3>2. CASE b # a
      BY <2>3, <3>2 DEF StepUserSubmit, Abort, Finish, Inv, TypeOK
    <3>3. QED BY <3>1, <3>2
  <2>4. ASSUME NEW f \in Flows,
               StepUser(f) \/ Dismiss(f) \/ \E b \in Addresses : StepBluetooth(f, b)
        PROVE  entry'[a] \in {entry[a], Nothing}
    BY <2>4 DEF StepUser, Dismiss, Abort, StepBluetooth
  <2>5. QED BY <2>1, <2>2, <2>3, <2>4 DEF Next
<1>2. QED BY <1>1, Inductive, PTL DEF Spec, NoEntryReplaced

\* What Home Assistant discovers is what the flow accepts, whatever parts of an
\* advertisement are missing.
THEOREM DiscoveryIsExact == Spec => []MatchersAgree
<1>1. Inv => MatchersAgree
  <2> SUFFICES ASSUME TypeOK, NEW a \in Addresses, ~Silent(a)
               PROVE  Matched(heard[a]) <=> Classify(heard[a]) # Nothing
    BY DEF Inv, MatchersAgree
  <2>1. heard[a] \in Adverts(a)
    BY DEF TypeOK, Silent
  <2>2. heard[a].uuids \subseteq {"DDM1", "DDM2"}
    BY <2>1 DEF Adverts, Advert
  <2>3. Nothing \notin {"ddm1", "ddm2"}
    BY NothingIsApart
  <2>4. QED BY <2>2, <2>3 DEF Matched, Classify
<1>2. QED BY <1>1, Inductive, PTL

\* An entry is made with the title and the protocol the form showed.
THEOREM MadeAsShown == Spec => CreatedAsShown
<1>1. Inv /\ [Next]_vars =>
        [\A a \in Addresses : entry'[a] \notin {entry[a], Nothing, Ignored} =>
            \E f \in Flows : Shows(f, a)]_vars
  <2> SUFFICES ASSUME Inv, Next, NEW a \in Addresses,
                      entry'[a] \notin {entry[a], Nothing, Ignored}
               PROVE  \E f \in Flows : Shows(f, a)
    OBVIOUS
  <2>1. ASSUME NEW b \in Addresses, Advertise(b) \/ OutOfRange(b) \/ RemoveEntry(b)
        PROVE  FALSE
    BY <2>1 DEF Advertise, OutOfRange, RemoveEntry, Inv, TypeOK
  <2>2. ASSUME NEW f \in Flows, StepBluetoothConfirm(f)
        PROVE  Shows(f, a)
    BY <2>2 DEF StepBluetoothConfirm, Finish, Shows, Inv, TypeOK
  <2>3. ASSUME NEW f \in Flows, NEW b \in Addresses, StepUserSubmit(f, b)
        PROVE  Shows(f, a)
    BY <2>3 DEF StepUserSubmit, Abort, Finish, Shows, Inv, TypeOK
  <2>4. ASSUME NEW f \in Flows, Ignore(f)
        PROVE  FALSE
    BY <2>4 DEF Ignore, Finish, Inv, TypeOK
  <2>5. ASSUME NEW f \in Flows,
               StepUser(f) \/ Dismiss(f) \/ \E b \in Addresses : StepBluetooth(f, b)
        PROVE  FALSE
    BY <2>5 DEF StepUser, Dismiss, Abort, StepBluetooth
  <2>6. QED BY <2>1, <2>2, <2>3, <2>4, <2>5 DEF Next
<1>2. QED BY <1>1, Inductive, PTL DEF Spec, CreatedAsShown

\* An entry is made once, of what was shown, and then left alone.
THEOREM EntriesAreKept == Spec => EntriesKept
    BY EntriesStay, MadeAsShown DEF EntriesKept
=============================================================================
