----------------------------- MODULE ConfigFlow -----------------------------
(***************************************************************************)
(* How a device becomes a config entry: Home Assistant starts a flow when   *)
(* an advertisement matches manifest.json, or the user starts one and picks *)
(* from the devices heard; each flow works from the advertisement it was    *)
(* given or last listed, while the devices go on advertising, other flows   *)
(* go on and entries are removed or ignored.  An advertisement is a name,   *)
(* the service UUIDs and the company ids, any of which may be missing from  *)
(* the one heard last; a step of a flow runs without suspending.            *)
(***************************************************************************)
EXTENDS FiniteSets

CONSTANTS
    Coolers,            \* the addresses of CFX3 coolers
    FreshJets,          \* the addresses of FreshJet units
    Others,             \* the addresses of anything else that advertises
    Flows,              \* the flows that may be in progress at a time
    Nothing             \* no advertisement, no protocol, no entry

ASSUME DevicesDiffer ==
    /\ Coolers \cap FreshJets = {}
    /\ Others \cap (Coolers \cup FreshJets) = {}

ASSUME NothingIsApart == Nothing \notin {"ddm1", "ddm2"}

VARIABLES
    heard,      \* the advertisement heard last from each address
    flow,       \* the step each flow is at and what it holds
    entry       \* the config entry of each address (its unique id)

vars == << heard, flow, entry >>

Addresses == Coolers \cup FreshJets \cup Others

Dometic == "0x0845"
Company == {Dometic}

\* What a device of each kind puts on the air; a cooler carries the company id too.
Advert(names, uuids, ids) ==
    [name : names, uuids : SUBSET uuids, ids : SUBSET ids]

Adverts(a) ==
    IF a \in Coolers THEN Advert({"CFX3", ""}, {"DDM1"}, Company)
    ELSE IF a \in FreshJets THEN Advert({"SHE", ""}, {"DDM2"}, Company)
    ELSE Advert({"other", ""}, {}, {})

\* The protocol a device speaks.
Speaks(a) == IF a \in Coolers THEN "ddm1" ELSE "ddm2"

-----------------------------------------------------------------------------
(* Classification *)

\* Mutant: the company id is tested before the name.
ClassifyCompanyFirst(info) ==
    IF Dometic \in info.ids THEN "ddm2"
    ELSE IF info.name = "CFX3" \/ "DDM1" \in info.uuids THEN "ddm1"
    ELSE IF "DDM2" \in info.uuids THEN "ddm2"
    ELSE Nothing

Classify(info) ==
    IF info.name = "CFX3" THEN "ddm1"
    ELSE IF Dometic \in info.ids THEN "ddm2"
    ELSE IF "DDM1" \in info.uuids THEN "ddm1"
    ELSE IF "DDM2" \in info.uuids THEN "ddm2"
    ELSE Nothing

\* The matchers of the manifest.
Matched(info) ==
    \/ info.uuids \cap {"DDM1", "DDM2"} # {}
    \/ info.name = "CFX3"
    \/ Dometic \in info.ids

Title(a, info) == IF info.name = "" THEN a ELSE info.name

\* An entry made from an advertisement; also what the form shows of it.
EntryFor(a, info) ==
    [source |-> "added", title |-> Title(a, info), protocol |-> Classify(info)]

Ignored == [source |-> "ignored", title |-> Nothing, protocol |-> Nothing]

-----------------------------------------------------------------------------
(* Flows: idle, at the confirm form with its advertisement, or at the user's list *)

Idle == [step |-> "idle"]
Confirm(a, info) == [step |-> "bluetooth_confirm", address |-> a, discovery |-> info]
Picking(list) == [step |-> "user", discovered |-> list]

AtConfirm(f) == flow[f].step = "bluetooth_confirm"
AtUser(f) == flow[f].step = "user"

Silent(a) == heard[a] = Nothing
Added(a) == entry[a] # Nothing /\ entry[a] # Ignored

\* async_set_unique_id aborts a flow that is not the user's while another has the id.
InProgress(a) == \E f \in Flows : AtConfirm(f) /\ flow[f].address = a

\* An advertisement a flow may hold: the device's own, and of a DDM device.
Usable(a, info) == info \in Adverts(a) /\ Classify(info) # Nothing

ConfirmOK(f) ==
    \E a \in Addresses : \E info \in Adverts(a) :
        flow[f] = Confirm(a, info) /\ Usable(a, info)

UserOK(f) ==
    /\ AtUser(f)
    /\ flow[f] = Picking(flow[f].discovered)
    /\ DOMAIN flow[f].discovered = Addresses
    /\ \A a \in Addresses :
          flow[f].discovered[a] = Nothing \/ Usable(a, flow[f].discovered[a])

AddedOK(a) == \E info \in Adverts(a) : Usable(a, info) /\ entry[a] = EntryFor(a, info)

TypeOK ==
    /\ heard = [a \in Addresses |-> heard[a]]
    /\ flow = [f \in Flows |-> flow[f]]
    /\ entry = [a \in Addresses |-> entry[a]]
    /\ \A a \in Addresses : heard[a] \in Adverts(a) \cup {Nothing}
    /\ \A f \in Flows : flow[f] = Idle \/ ConfirmOK(f) \/ UserOK(f)
    /\ \A a \in Addresses : entry[a] \in {Nothing, Ignored} \/ AddedOK(a)

Init ==
    /\ heard = [a \in Addresses |-> Nothing]
    /\ flow = [f \in Flows |-> Idle]
    /\ entry = [a \in Addresses |-> Nothing]

-----------------------------------------------------------------------------
(* The devices and Home Assistant's bookkeeping *)

Advertise(a) ==
    /\ \E info \in Adverts(a) : heard' = [heard EXCEPT ![a] = info]
    /\ UNCHANGED << flow, entry >>

OutOfRange(a) ==
    /\ ~Silent(a)
    /\ heard' = [heard EXCEPT ![a] = Nothing]
    /\ UNCHANGED << flow, entry >>

\* A flow that makes an entry ends, with every discovery of the same device.
Finish(f, a, made) ==
    /\ entry' = [entry EXCEPT ![a] = made]
    /\ flow' = [g \in Flows |->
                    IF g = f \/ (AtConfirm(g) /\ flow[g].address = a) THEN Idle ELSE flow[g]]
    /\ UNCHANGED heard

Abort(f) ==
    /\ flow' = [flow EXCEPT ![f] = Idle]
    /\ UNCHANGED << heard, entry >>

Dismiss(f) == flow[f] # Idle /\ Abort(f)

Ignore(f) == AtConfirm(f) /\ Finish(f, flow[f].address, Ignored)

RemoveEntry(a) ==
    /\ entry[a] # Nothing
    /\ entry' = [entry EXCEPT ![a] = Nothing]
    /\ UNCHANGED << heard, flow >>

-----------------------------------------------------------------------------
(* The steps of the flow *)

\* Mutant: a device already offered is offered again.
StepBluetoothTwice(f, a) ==
    /\ flow[f] = Idle
    /\ ~Silent(a) /\ Matched(heard[a])
    /\ Classify(heard[a]) # Nothing
    /\ entry[a] = Nothing
    /\ flow' = [flow EXCEPT ![f] = Confirm(a, heard[a])]
    /\ UNCHANGED << heard, entry >>

\* A matcher hit: not_supported, already_in_progress and already_configured change nothing.
StepBluetooth(f, a) ==
    /\ flow[f] = Idle
    /\ ~Silent(a) /\ Matched(heard[a])
    /\ Classify(heard[a]) # Nothing
    /\ ~InProgress(a)
    /\ entry[a] = Nothing
    /\ flow' = [flow EXCEPT ![f] = Confirm(a, heard[a])]
    /\ UNCHANGED << heard, entry >>

StepBluetoothConfirm(f) ==
    /\ AtConfirm(f)
    /\ Finish(f, flow[f].address, EntryFor(flow[f].address, flow[f].discovery))

\* The devices in range that are no entries yet; an ignored one is offered again.
Offered(a) == ~Silent(a) /\ ~Added(a) /\ Classify(heard[a]) # Nothing

Listed(list) == [a \in Addresses |-> IF Offered(a) THEN heard[a] ELSE list[a]]

\* The form of the user step, also when it is asked for again; with no device it aborts.
StepUser(f) ==
    LET list == Listed(IF AtUser(f) THEN flow[f].discovered ELSE [a \in Addresses |-> Nothing])
    IN /\ flow[f] = Idle \/ AtUser(f)
       /\ \E a \in Addresses : list[a] # Nothing
       /\ flow' = [flow EXCEPT ![f] = Picking(list)]
       /\ UNCHANGED << heard, entry >>

\* Mutant: the unique id is not checked.
StepUserSubmitUnchecked(f, a) ==
    /\ AtUser(f)
    /\ flow[f].discovered[a] # Nothing
    /\ Finish(f, a, EntryFor(a, flow[f].discovered[a]))

StepUserSubmit(f, a) ==
    /\ AtUser(f)
    /\ flow[f].discovered[a] # Nothing
    /\ IF Added(a) THEN Abort(f)
       ELSE Finish(f, a, EntryFor(a, flow[f].discovered[a]))

Next ==
    \/ \E a \in Addresses : Advertise(a) \/ OutOfRange(a) \/ RemoveEntry(a)
    \/ \E f \in Flows :
        \/ StepBluetoothConfirm(f) \/ StepUser(f) \/ Dismiss(f) \/ Ignore(f)
        \/ \E a \in Addresses : StepBluetooth(f, a) \/ StepUserSubmit(f, a)

Spec == Init /\ [][Next]_vars

-----------------------------------------------------------------------------
(* Properties *)

\* An entry has the protocol its device speaks, although a cooler carries the company id
\* of the other protocol and the flow may work from an old or partial advertisement.  The
\* exception is a cooler whose advertisement lacked the name, which travels in the scan
\* response: it may be stored as DDM2, and whoever confirmed it saw an address for a title.
RightProtocol ==
    \A a \in Addresses : Added(a) =>
        entry[a].protocol = Speaks(a) \/ (a \in Coolers /\ entry[a].title = a)

\* The matchers of the manifest and classify() agree on every advertisement heard: Home
\* Assistant starts no flow that ends as not_supported, and a device the user's list
\* offers is also discovered.
MatchersAgree ==
    \A a \in Addresses : ~Silent(a) => (Matched(heard[a]) <=> Classify(heard[a]) # Nothing)

\* A device is offered for discovery once at most, and never while it has an entry or is
\* ignored: confirming a form, which checks nothing, cannot meet an entry.
OneOffer ==
    \A f \in Flows : AtConfirm(f) =>
        /\ entry[flow[f].address] = Nothing
        /\ \A g \in Flows : AtConfirm(g) /\ flow[g].address = flow[f].address => g = f

\* A flow never replaces the entry of a device that was added, however old its list is.
NoEntryReplaced ==
    [][\A a \in Addresses : Added(a) => entry'[a] \in {entry[a], Nothing}]_vars

\* What a flow's form shows of a device.
Shows(f, a) ==
    \/ AtConfirm(f) /\ flow[f].address = a /\ entry'[a] = EntryFor(a, flow[f].discovery)
    \/ /\ AtUser(f) /\ flow[f].discovered[a] # Nothing
       /\ entry'[a] = EntryFor(a, flow[f].discovered[a])

\* The entry made is the one the user was shown, with that title and that protocol, even
\* if the device has advertised something else since.
CreatedAsShown ==
    [][\A a \in Addresses : entry'[a] \notin {entry[a], Nothing, Ignored} =>
            \E f \in Flows : Shows(f, a)]_vars

\* An entry is made once, of what was shown, and then left alone.
EntriesKept == NoEntryReplaced /\ CreatedAsShown
=============================================================================
