------------------------------ MODULE FreshJet ------------------------------
(***************************************************************************)
(* The entities of a FreshJet at work: service calls of Home Assistant run  *)
(* as tasks of their own and write through coordinator.async_write(); the   *)
(* unit applies a SET and publishes what changed some 400 ms later          *)
(* (docs/captures/2026-09-20_fjz7_writes.log); the coordinator keeps the    *)
(* last value of each parameter, also across a reconnect, and every entity  *)
(* shows that.  The link may drop, the remote control may be used and the   *)
(* unit starts and stops its compressor.                                    *)
(***************************************************************************)
EXTENDS Entities, FiniteSets

CONSTANTS
    Callers,                \* the tasks of service calls
    Modes,                  \* the HVAC modes a user or the remote control chooses
    Dimmed,                 \* the brightness a user may choose
    MaxCalls,               \* bound: service calls
    MaxDrops,               \* bound: links lost
    MaxActs                 \* bound: changes the unit makes by itself

ASSUME FreshJetAssumption ==
    /\ Modes \subseteq {HvacOfMode[md + 1] : md \in AcModes}
    /\ Dimmed \subseteq 1 .. 255
    /\ MaxCalls \in Nat /\ MaxDrops \in Nat /\ MaxActs \in Nat

VARIABLES
    used,       \* the parameters of the entities in use: the climate's or the light's
    linked,     \* is there a session that is ready?
    unasked,    \* the subscriptions still to be sent on this link
    up,         \* the SET frames on their way to the unit
    down,       \* the PUBLISH frames on their way back
    unit,       \* the parameters in the unit
    data,       \* coordinator.data
    todo,       \* the writes left of each service call
    want,       \* history: the HVAC mode last asked for, "any" if something intervened
    light,      \* history: the brightness last asked for, Unknown likewise
    count       \* calls, drops and acts so far

queues == << unasked, up, down >>
vars == << used, linked, queues, unit, data, todo, want, light, count >>

Climate == {"ac.on", "ac.md"}
Light == {"ac.lgt", "ac.dmr"}
Running == {"ac.operst", "ac.actext"}
Parameters == Climate \cup Light \cup Running

\* A call of the light entity: a brightness, none, or off.
Plain == 256
Dark == 0

\* What the unit does not publish when asked, only when it changes.
OnChangeOnly == {"ac.operst"}

\* The climate and the light share the link and nothing else: a behaviour is
\* about one of them, and of the subscriptions its part matters.
ClimateSubscriptions == << "ac.on", "ac.md", "ac.operst", "ac.actext" >>
LightSubscriptions == << "ac.lgt", "ac.dmr" >>
Subscriptions == IF used = Light THEN LightSubscriptions ELSE ClimateSubscriptions

ASSUME SubscriptionsAssumption ==
    /\ ClimateSubscriptions =
           SelectSeq(FJZ7_SUBSCRIPTIONS, LAMBDA p : p \in Climate \cup Running)
    /\ LightSubscriptions = SelectSeq(FJZ7_SUBSCRIPTIONS, LAMBDA p : p \in Light)

Init ==
    /\ used \in {Climate \cup Running, Light}
    /\ linked = FALSE
    /\ unasked = << >> /\ up = << >> /\ down = << >>
    /\ unit = [p \in Parameters |->
                  CASE p = "ac.md" -> 1 [] p = "ac.dmr" -> 100 [] p = "ac.actext" -> 16 [] OTHER -> 0]
    /\ data = [p \in Parameters |-> Unknown]
    /\ todo = [c \in Callers |-> << >>]
    /\ want = "any" /\ light = Unknown
    /\ count = [calls |-> 0, drops |-> 0, acts |-> 0]

Counted(what) == count' = [count EXCEPT ![what] = @ + 1]

\* The PUBLISH frames with the values of these parameters.
Values(u, ps) == [i \in DOMAIN ps |-> Write(ps[i], u[ps[i]])]

-----------------------------------------------------------------------------
(* The link.                                                               *)

\* Mutant: a reconnect only asks for what is not known yet.
ReconnectMissing ==
    /\ ~linked
    /\ linked' = TRUE
    /\ unasked' = SelectSeq(Subscriptions, LAMBDA p : data[p] = Unknown)
    /\ UNCHANGED << used, up, down, unit, data, todo, want, light, count >>

\* A FreshJet has no handshake: the session is ready at once, then
\* subscribe_many() sends the list.
Reconnect ==
    /\ ~linked
    /\ linked' = TRUE
    /\ unasked' = Subscriptions
    /\ UNCHANGED << used, up, down, unit, data, todo, want, light, count >>

\* The next SUBSCRIBE reaches the unit and is answered with the value of then.
\* It may have been written before or after a SET that is still on its way.
Subscribe ==
    /\ linked /\ unasked # << >>
    /\ down' = IF Head(unasked) \in OnChangeOnly THEN down
               ELSE down \o Values(unit, << Head(unasked) >>)
    /\ unasked' = Tail(unasked)
    /\ UNCHANGED << used, linked, up, unit, data, todo, want, light, count >>

\* Is something of these parameters still to be written or applied?
Pending(ps) ==
    \/ \E c \in Callers : \E i \in DOMAIN todo[c] : todo[c][i].p \in ps
    \/ \E i \in DOMAIN up : up[i].p \in ps

\* Mutant: the rest of the list is still sent.
DropStillAsking ==
    /\ linked
    /\ count.drops < MaxDrops /\ Counted("drops")
    /\ linked' = FALSE
    /\ up' = << >> /\ down' = << >>
    /\ want' = IF Pending(Climate) THEN "any" ELSE want
    /\ light' = IF Pending(Light) THEN Unknown ELSE light
    /\ UNCHANGED << used, unasked, unit, data, todo >>

\* What is in flight is lost; the data stays.
Drop ==
    /\ linked
    /\ count.drops < MaxDrops /\ Counted("drops")
    /\ linked' = FALSE
    /\ unasked' = << >> /\ up' = << >> /\ down' = << >>
    /\ want' = IF Pending(Climate) THEN "any" ELSE want
    /\ light' = IF Pending(Light) THEN Unknown ELSE light
    /\ UNCHANGED << used, unit, data, todo >>

-----------------------------------------------------------------------------
(* Service calls.                                                          *)

Absent(s, p) == \A i \in DOMAIN s : s[i].p # p
IsLast(s, i) == \A j \in DOMAIN s : i < j => s[j].p # s[i].p

\* Once all of s has been applied, p has the value v, if it had d before.
Ends(s, p, d, v) ==
    /\ \A i \in DOMAIN s : s[i].p = p /\ IsLast(s, i) => s[i].v = v
    /\ Absent(s, p) => d = v

\* Is a mode asked of a unit that is shown to be on, but is off or about to be
\* switched off?  It is not switched on then.
Misled(mode) ==
    mode \in Modes /\ data["ac.on"] > 0 /\ ~Ends(up, "ac.on", unit["ac.on"], 1)

Busy(ps) == \E c \in Callers : \E i \in DOMAIN todo[c] : todo[c][i].p \in ps

Calls(c) ==
    /\ linked /\ todo[c] = << >>
    /\ count.calls < MaxCalls /\ Counted("calls")
    /\ UNCHANGED << used, linked, queues, unit, data >>

\* The climate entity: a mode, or turn_on.
CallClimate(c) ==
    /\ used # Light
    /\ \E mode \in Modes \cup {"off", "on"} :
        /\ todo' = [todo EXCEPT ![c] =
               IF mode = "on" THEN AcTurnOn ELSE AcSetHvacMode(data, mode)]
        /\ want' = IF Busy(Climate) \/ Misled(mode) THEN "any" ELSE mode
    /\ Calls(c)
    /\ UNCHANGED light

\* The light entity: on, on with a brightness, off.
CallLight(c) ==
    /\ used = Light
    /\ \E b \in Dimmed \cup {Plain, Dark} :
        /\ todo' = [todo EXCEPT ![c] =
               CASE b = Plain -> LightTurnOn
                 [] b = Dark -> LightTurnOff
                 [] OTHER -> LightTurnOnAt(b)]
        /\ light' = IF Busy(Light) THEN Unknown ELSE b
    /\ Calls(c)
    /\ UNCHANGED want

\* coordinator.async_write(): the next write of the call, once it holds the
\* session's write lock.
AsyncWrite(c) ==
    /\ todo[c] # << >> /\ linked
    /\ up' = Append(up, Head(todo[c]))
    /\ todo' = [todo EXCEPT ![c] = Tail(@)]
    /\ UNCHANGED << used, linked, unasked, down, unit, data, want, light, count >>

\* Mutant: the call waits for a link.
WriteWaits(c) ==
    /\ todo[c] # << >> /\ ~linked
    /\ UNCHANGED vars

\* Not connected: HomeAssistantError, the rest of the call is not written.
WriteRefused(c) ==
    /\ todo[c] # << >> /\ ~linked
    /\ todo' = [todo EXCEPT ![c] = << >>]
    /\ UNCHANGED << used, linked, queues, unit, data, want, light, count >>

-----------------------------------------------------------------------------
(* The unit, as the simulator of the tests and the captures show it.       *)

\* What the unit publishes when it has applied a SET.
Echo(u, p) ==
    CASE p = "ac.on" /\ u["ac.on"] = 1 -> << "ac.md", "ac.on" >>
      [] p = "ac.md" /\ u["ac.on"] = 1 -> << "ac.md", "ac.on" >>
      [] p = "ac.lgt" /\ u["ac.lgt"] = 1 -> << "ac.dmr", "ac.lgt" >>
      [] OTHER -> << p >>

\* Switching the light on may set its dimmer to 100 (light.py:34).
Applied(f) ==
    {[unit EXCEPT ![f.p] = f.v]} \cup
    {u \in {[unit EXCEPT !["ac.lgt"] = 1, !["ac.dmr"] = 100]} : f.p = "ac.lgt" /\ f.v = 1}

\* Has the switch just undone the brightness, with no other on its way?
DimmerReset ==
    /\ Head(up).p = "ac.lgt" /\ unit'["ac.dmr"] # unit["ac.dmr"]
    /\ ~Pending({"ac.dmr"})

UnitHandles ==
    /\ up # << >>
    /\ up' = Tail(up)
    /\ unit' \in Applied(Head(up))
    /\ down' = down \o Values(unit', Echo(unit', Head(up).p))
    /\ light' = IF light \in Dimmed /\ DimmerReset THEN Plain ELSE light
    /\ UNCHANGED << used, linked, unasked, data, todo, want, count >>

IfChanged(u, p) == IF u[p] # unit[p] THEN << p >> ELSE << >>

UnitChanges(u) ==
    /\ count.acts < MaxActs /\ Counted("acts")
    /\ unit' = u
    /\ LET changed == IfChanged(u, "ac.on") \o IfChanged(u, "ac.md")
                         \o IfChanged(u, "ac.operst") \o IfChanged(u, "ac.actext")
       IN  down' = IF linked THEN down \o Values(u, changed) ELSE down
    /\ UNCHANGED << used, linked, unasked, up, data, todo, light >>

\* Somebody uses the remote control.
Remote ==
    /\ used # Light
    /\ \E on \in 0 .. 1, mode \in Modes :
           UnitChanges([unit EXCEPT !["ac.on"] = on, !["ac.md"] = ModeOfHvac(mode)])
    /\ want' = "any"

\* Does this operating state (0 fan only, 1 cooling, 2 heating) fit the mode?
Suits(operst, hvac) ==
    /\ operst = 1 => hvac \in {"cool", "dry", "auto"}
    /\ operst = 2 => hvac \in {"heat", "auto"}

\* The unit starts or stops its compressor.
Acts ==
    /\ used # Light
    /\ unit["ac.on"] = 1
    /\ \E operst \in 0 .. 2 :
        /\ Suits(operst, HvacOfMode[unit["ac.md"] + 1])
        /\ UnitChanges([unit EXCEPT !["ac.operst"] = operst,
                                    !["ac.actext"] = IF operst = 0 THEN 16 ELSE 18])
    /\ UNCHANGED want

\* coordinator._on_update().
OnUpdate ==
    /\ down # << >>
    /\ data' = [data EXCEPT ![Head(down).p] = Head(down).v]
    /\ down' = Tail(down)
    /\ UNCHANGED << used, linked, unasked, up, unit, todo, want, light, count >>

-----------------------------------------------------------------------------
CallStep(c) == AsyncWrite(c) \/ WriteRefused(c)
LinkStep == Subscribe \/ UnitHandles \/ OnUpdate

Next ==
    \/ Reconnect \/ Drop \/ LinkStep \/ Remote \/ Acts
    \/ \E c \in Callers : CallClimate(c) \/ CallLight(c) \/ CallStep(c)

Spec == Init /\ [][Next]_vars

\* The event loop and the unit go on; nothing says that a link comes back.
FairSpec ==
    /\ Spec
    /\ WF_vars(Subscribe) /\ WF_vars(UnitHandles) /\ WF_vars(OnUpdate)
    /\ \A c \in Callers : WF_vars(CallStep(c))
-----------------------------------------------------------------------------
(* Properties.                                                             *)

\* Every variable has its type, and nothing is in flight without a link: what
\* was queued for one link is never sent over the next.
TypeOK ==
    /\ used \in {Climate \cup Running, Light}
    /\ linked \in BOOLEAN
    /\ unasked \in Seq(Parameters)
    /\ ~linked => up = << >> /\ down = << >> /\ unasked = << >>
    /\ unit \in [Parameters -> 0 .. 255]
    /\ data \in [Parameters -> 0 .. 255 \cup {Unknown}]
    /\ todo \in [Callers -> Seq([p : Parameters, v : 0 .. 255])]
    /\ want \in Modes \cup {"off", "on", "any"}
    /\ light \in Dimmed \cup {Plain, Dark, Unknown}

\* Everything that was written has been applied and has come back.
Quiet ==
    /\ linked /\ unasked = << >> /\ up = << >> /\ down = << >>
    /\ \A c \in Callers : todo[c] = << >>

\* At rest an entity shows what is in the unit, also after a reconnect; only
\* ac.operst, which the unit does not repeat, may be out of date.
ShownIsUnit == Quiet => \A p \in used \ OnChangeOnly : data[p] = unit[p]

\* At rest the climate entity shows the mode that was asked for last, however
\* the calls, the echoes and a reconnect overlapped.  Not if another call of it
\* still wrote at that time, something of it was lost with the link or the
\* remote control was used, and not if the entity showed a unit to be on that
\* was off or about to be: async_set_hvac_mode() then does not switch it on.
LastWordWins ==
    Quiet =>
        /\ want \in Modes \cup {"off"} => AcHvacMode(data) = want
        /\ want = "on" => AcHvacMode(data) # "off"

\* The same for the light and its brightness, up to the step of the dimmer.
\* The brightness is not kept if switching on reset the dimmer after it was
\* set; and brightness 1, which is written as 0, shows as the lowest step.
LightObeys ==
    Quiet =>
        /\ light = Dark => LightIsOn(data) = "off"
        /\ light \in Dimmed \cup {Plain} => LightIsOn(data) = "on"
        /\ light \in Dimmed =>
               Percent(LightBrightness(data)) = IF light = 1 THEN 1 ELSE Percent(light)

\* At rest the climate entity says that the unit heats or cools when it
\* does: by ac.operst if that is up to date, else by the active components,
\* which tell heating from cooling by the mode: not in "auto", and not before
\* the unit has followed a change of the mode.
ActionIsTrue ==
    Quiet /\ used # Light /\ unit["ac.on"] = 1
    /\ data["ac.operst"] \in {Unknown, unit["ac.operst"]}
    /\ (data["ac.operst"] = Unknown =>
            AcHvacMode(data) # "auto" /\ Suits(unit["ac.operst"], AcHvacMode(data)))
        => \A n \in 1 .. 2 :
               AcHvacAction(data) = ActionOfOperst[n + 1] <=> unit["ac.operst"] = n

\* At rest nothing the entities show of the unit is out of date but ac.operst, and the
\* action they make of the values is the unit's.
ShowsTheUnit == ShownIsUnit /\ ActionIsTrue

\* A service call ends, whatever happens to the link.
CallEnds == \A c \in Callers : todo[c] # << >> ~> todo[c] = << >>

\* What is shown catches up with the unit as long as there is a link.
CatchesUp == []<>(linked => ShownIsUnit /\ Quiet)

\* Commands and what is shown settle.
Settles == CallEnds /\ CatchesUp
=============================================================================
