----------------------------- MODULE Brightness -----------------------------
(***************************************************************************)
(* The levels of the brightness service (internal/daemon/brightness).  The *)
(* socket's requests store a level and leave the tool that sets the panel  *)
(* to a goroutine; a poll reads one panel after the other and then writes  *)
(* its whole copy of the list back; what is shown are the copies that were *)
(* emitted.  The multipliers are AntiFlashbang's and may change at any     *)
(* time.                                                                   *)
(***************************************************************************)
EXTENDS Integers, Sequences, SequencesExt

CONSTANTS
    Screen,
    Levels,     \* the steps from 0.0 to 1.0
    Multiplier, \* what the anti-flashbang may have measured, in halves
    Buses,      \* the screens that may be detected with a bus of their own
    Upsets      \* bound on requests and failures of the tools

ASSUME BusesAssumption == Buses \subseteq SUBSET Screen

VARIABLES
    ddc,        \* the screens that were; the others share the backlight
    known,      \* s.monitors2: [screen -> Current], detected once
    panel,      \* [device -> raw level]
    setting,    \* the goroutines of `go setBrightness', a sequence of <<device, raw>>
    poll,       \* the copy the poll began with, the levels it read, the screens still to read
    emitting,   \* <<goroutine, copy>> on the way to the callback, oldest first
    shown,
    crossed,    \* history: two emissions overtook each other
    upsets

brVars == <<ddc, known, panel, setting, poll, emitting, shown, crossed, upsets>>

Device(s) == IF s \in ddc THEN s ELSE "backlight"
Upset == upsets > 0 /\ upsets' = upsets - 1
NoPoll == [was |-> <<>>, now |-> <<>>, todo |-> {}]
Clamped(n) == IF n < 0 THEN 0 ELSE IF n > Levels THEN Levels ELSE n

\* setBrightness never goes below one; nothing keeps it from going beyond the highest level.
Raw(value, m) == IF (value * m) \div 2 < 1 THEN 1 ELSE (value * m) \div 2

\* Run as far as detectMonitors.
BrInit ==
    /\ ddc \in Buses
    /\ panel = [d \in {Device(s) : s \in Screen} |-> Levels]
    /\ known = [s \in Screen |-> Levels]
    /\ setting = <<>> /\ poll = NoPoll /\ emitting = <<>> /\ shown = known
    /\ crossed = FALSE /\ upsets = Upsets

\* emitBrightness copies the list and then calls back.  A store and the copy behind
\* it are one step: a store between them only makes the copy newer.
Store(by, list) == known' = list /\ emitting' = Append(emitting, <<by, list>>)

Emitted(i) ==
    /\ i \in DOMAIN emitting
    /\ shown' = emitting[i][2] /\ emitting' = RemoveAt(emitting, i)
    /\ crossed' = (crossed \/ i # 1)
    /\ UNCHANGED <<ddc, known, panel, setting, poll, upsets>>

SetTo(s, value) ==
    /\ Upset
    /\ Store("request", [known EXCEPT ![s] = value])
    /\ \E m \in Multiplier : setting' = Append(setting, <<Device(s), Raw(value, m)>>)
    /\ UNCHANGED <<ddc, panel, poll, shown, crossed>>

SetBrightness(s) == \E value \in 0..Levels : SetTo(s, value)
IncrementBrightness(s) == \E delta \in {-1, 1} : SetTo(s, Clamped(known[s] + delta))

\* EmitSnapshot, for a client that connects.
EmitBrightness ==
    /\ Upset /\ Store("request", known)
    /\ UNCHANGED <<ddc, panel, setting, poll, shown, crossed>>

\* The goroutines run in any order, and a tool that fails is not noticed.  Beyond the
\* highest level brightnessctl stays at it, and a monitor does so or refuses.
ToolSets(i) ==
    /\ i \in DOMAIN setting /\ setting' = RemoveAt(setting, i)
    /\ \/ /\ panel' = [panel EXCEPT ![setting[i][1]] = Clamped(setting[i][2])]
          /\ UNCHANGED upsets
       \/ /\ setting[i][1] \in ddc /\ setting[i][2] > Levels
          /\ UNCHANGED <<panel, upsets>>
       \/ Upset /\ UNCHANGED panel
    /\ UNCHANGED <<ddc, known, poll, emitting, shown, crossed>>

\* The poll's goroutine is back from its callback before its next tick.
StartPoll ==
    /\ poll = NoPoll /\ \A i \in DOMAIN emitting : emitting[i][1] # "poll"
    /\ poll' = [was |-> known, now |-> known, todo |-> Screen]
    /\ UNCHANGED <<ddc, known, panel, setting, emitting, shown, crossed, upsets>>

\* initMonitorBrightness, in the order of the list.  An error keeps the level of the copy;
\* output that cannot be read is taken for half.
ReadPanel(s) ==
    /\ s \in poll.todo
    /\ \E level \in 0..Levels :
          /\ \/ level = panel[Device(s)] /\ UNCHANGED upsets
             \/ level \in {Levels \div 2, poll.was[s]} /\ Upset
          /\ poll' = [poll EXCEPT !.now[s] = level, !.todo = @ \ {s}]
    /\ UNCHANGED <<ddc, known, panel, setting, emitting, shown, crossed>>

\* Bug: the levels that were read are shown and not kept.
EndPollUnstored ==
    /\ poll # NoPoll /\ poll.todo = {}
    /\ poll' = NoPoll
    /\ emitting' = IF poll.now = poll.was THEN emitting
                   ELSE Append(emitting, <<"poll", poll.now>>)
    /\ UNCHANGED <<ddc, known, panel, setting, shown, crossed, upsets>>

EndPoll ==
    /\ poll # NoPoll /\ poll.todo = {}
    /\ poll' = NoPoll
    /\ IF poll.now # poll.was THEN Store("poll", poll.now) ELSE UNCHANGED <<known, emitting>>
    /\ UNCHANGED <<ddc, panel, setting, shown, crossed, upsets>>

Poll == StartPoll \/ EndPoll \/ \E s \in Screen : ReadPanel(s)

\* Only as many copies and goroutines as requests and polls have made.
BrNext ==
    \/ Poll \/ EmitBrightness
    \/ \E s \in Screen : SetBrightness(s) \/ IncrementBrightness(s)
    \/ \E i \in DOMAIN emitting : Emitted(i)
    \/ \E i \in DOMAIN setting : ToolSets(i)

BrFairness == WF_brVars(Poll) /\ WF_brVars(Emitted(1)) /\ WF_brVars(ToolSets(1))

(***************************************************************************)
(* However requests, the goroutines that set the panels and the poll's     *)
(* stale copies interleave, the list ends up with what the panels are set  *)
(* to, and so does what is shown, unless an older copy was emitted last.   *)
(***************************************************************************)
BrightnessSettles ==
    BrFairness =>
      <>[](\A s \in DOMAIN known :
              /\ known[s] = panel[Device(s)]
              /\ shown[s] = known[s] \/ crossed)
=============================================================================
