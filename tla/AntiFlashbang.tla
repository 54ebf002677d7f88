--------------------------- MODULE AntiFlashbang ---------------------------
(***************************************************************************)
(* The multipliers of the brightness service.  A reader puts the lines of  *)
(* the event socket in a channel and drops those that find it full;        *)
(* subscribeEvents debounces them and leaves a flush to a goroutine, which *)
(* sleeps, copies the monitors and measures one screen after the other.    *)
(* The connection may end with lines still in the channel, and Run sleeps  *)
(* before it opens the next one.                                           *)
(***************************************************************************)
EXTENDS Naturals, Sequences, SequencesExt

CONSTANTS
    Display,
    Glare,          \* what grim and magick may measure
    Flusher,        \* the goroutines that may flush at once
    Room,           \* of eventCh, 64 in the code
    Scenes, Losses  \* bounds: lines of the socket, and lost connections or failures

VARIABLES
    names,          \* s.monitors
    plugged,
    multipliers,
    scene,          \* what a measurement of the screen would yield
    subscribed,
    queue,          \* eventCh, a sequence of kinds of lines
    pending,
    flushing,       \* [Flusher -> asleep, the screens it has yet to do, what it measured]
    excused,        \* history: screens no later measurement is owed to
    unlisted,       \* history: no refresh of the monitors is owed
    scenes, losses

fbVars == <<names, plugged, multipliers, scene, subscribed, queue, pending, flushing,
            excused, unlisted, scenes, losses>>

NoFlush == [asleep |-> FALSE, todo |-> {}, seen |-> <<>>]
Loses == losses > 0 /\ losses' = losses - 1

\* A line that makes the loop pending waits in the channel.
Relevant == Contains(queue, "scene") \/ Contains(queue, "monitors")

FbInit ==
    /\ plugged = Display /\ names = Display
    /\ scene \in [Display -> Glare] /\ multipliers = scene
    /\ subscribed = TRUE /\ queue = <<>> /\ pending = FALSE
    /\ flushing = [f \in Flusher |-> NoFlush]
    /\ excused = {} /\ unlisted = FALSE /\ scenes = Scenes /\ losses = Losses

----------------------------------------------------------------------------
(* The socket.                                                             *)

HasRoom == Len(queue) < Room

\* The reader's select: a line is put in the channel, or dropped when there is no room;
\* between two connections nobody reads.
Sent(line) ==
    /\ scenes > 0 /\ scenes' = scenes - 1
    /\ queue' = IF subscribed /\ HasRoom THEN Append(queue, line) ELSE queue
    /\ UNCHANGED <<multipliers, subscribed, pending, flushing, losses>>

\* No line is left that makes up for one that was dropped.
Unheard == ~subscribed \/ (~HasRoom /\ ~Relevant)

\* The contents of a screen change with a window or workspace event.
NewScene(s) ==
    /\ s \in plugged /\ Sent("scene")
    /\ \E b \in Glare \ {scene[s]} : scene' = [scene EXCEPT ![s] = b]
    /\ excused' = IF Unheard THEN excused \cup {s} ELSE excused
    /\ UNCHANGED <<names, plugged, unlisted>>

Plug(s) ==
    /\ Sent("monitors")
    /\ plugged' = IF s \in plugged THEN plugged \ {s} ELSE plugged \cup {s}
    /\ excused' = IF Unheard THEN excused \cup {s} ELSE excused
    /\ unlisted' = (\/ unlisted \/ ~subscribed
                    \/ ~HasRoom /\ ~Contains(queue, "monitors"))
    /\ UNCHANGED <<names, scene>>

\* Any other event takes a place in the channel.
OtherLine == Sent("other") /\ UNCHANGED <<names, plugged, scene, excused, unlisted>>

----------------------------------------------------------------------------
(* The loop of subscribeEvents.                                            *)

\* refreshMonitors; its failure leaves the list.
RefreshMonitors ==
    \/ names' = plugged /\ unlisted' = FALSE /\ UNCHANGED losses
    \/ Loses /\ unlisted' = TRUE /\ UNCHANGED names

\* Bug: an event during a flush is taken for one the flush will see.
ReceiveUnlessFlushing ==
    /\ subscribed /\ queue # <<>> /\ queue' = Tail(queue)
    /\ pending' = (\/ pending
                   \/ Head(queue) # "other" /\ \A f \in Flusher : flushing[f] = NoFlush)
    /\ IF Head(queue) = "monitors" THEN RefreshMonitors
       ELSE UNCHANGED <<names, unlisted, losses>>
    /\ UNCHANGED <<plugged, multipliers, scene, subscribed, flushing, excused, scenes>>

Receive ==
    /\ subscribed /\ queue # <<>> /\ queue' = Tail(queue)
    /\ pending' = (pending \/ Head(queue) # "other")
    /\ IF Head(queue) = "monitors" THEN RefreshMonitors
       ELSE UNCHANGED <<names, unlisted, losses>>
    /\ UNCHANGED <<plugged, multipliers, scene, subscribed, flushing, excused, scenes>>

FlushStarts(f) ==
    /\ flushing[f] = NoFlush
    /\ flushing' = [flushing EXCEPT ![f].asleep = TRUE]

\* The debounce timer: the flush is left to a goroutine.
Debounced(f) ==
    /\ pending /\ pending' = FALSE /\ FlushStarts(f)
    /\ UNCHANGED <<names, plugged, multipliers, scene, subscribed, queue, excused, unlisted,
                   scenes, losses>>

\* doneCh may be chosen before the lines that are left in the channel.  What is pending is
\* flushed; nothing is measured, nor the monitors refreshed, when the next one is open.
Disconnected(f) ==
    /\ subscribed /\ subscribed' = FALSE /\ Loses
    /\ IF pending THEN FlushStarts(f) ELSE UNCHANGED flushing
    /\ pending' = FALSE /\ queue' = <<>>
    /\ excused' = IF Relevant /\ ~pending THEN Display ELSE excused
    /\ unlisted' = (unlisted \/ Contains(queue, "monitors"))
    /\ UNCHANGED <<names, plugged, multipliers, scene, scenes>>

Subscribe ==
    /\ ~subscribed /\ subscribed' = TRUE
    /\ UNCHANGED <<names, plugged, multipliers, scene, queue, pending, flushing, excused,
                   unlisted, scenes, losses>>

----------------------------------------------------------------------------
(* The goroutines.                                                         *)

\* The names are copied when the animation is over.
CalculateAllMonitors(f) ==
    /\ flushing[f].asleep
    /\ flushing' = [flushing EXCEPT ![f] = [NoFlush EXCEPT !.todo = names]]
    /\ UNCHANGED <<names, plugged, multipliers, scene, subscribed, queue, pending, excused,
                   unlisted, scenes, losses>>

\* What f measured of s, with TRUE while nobody has measured s since.
Latest(f, s) == flushing[f].seen # <<>> /\ flushing[f].seen[1] = s /\ flushing[f].seen[3]

\* calculateBrightness; its failure leaves the multiplier.
MeasureSucceeds(f, s) ==
    /\ s \in plugged
    /\ flushing' = [g \in Flusher |->
          IF g = f THEN [flushing[f] EXCEPT !.todo = @ \ {s}, !.seen = <<s, scene[s], TRUE>>]
          ELSE IF Latest(g, s) THEN [flushing[g] EXCEPT !.seen = <<s, flushing[g].seen[2], FALSE>>]
          ELSE flushing[g]]
    /\ excused' = excused \ {s} /\ UNCHANGED losses

MeasureFails(f, s) ==
    /\ flushing' = [flushing EXCEPT ![f].todo = @ \ {s}]
    /\ IF s \in plugged THEN Loses /\ excused' = excused \cup {s}
       ELSE UNCHANGED <<excused, losses>>

Measure(f, s) ==
    /\ flushing[f].seen = <<>> /\ s \in flushing[f].todo
    /\ MeasureSucceeds(f, s) \/ MeasureFails(f, s)
    /\ UNCHANGED <<names, plugged, multipliers, scene, subscribed, queue, pending, unlisted,
                   scenes>>

\* A measurement that is stored after a newer one is the one that stays.
StoreMultiplier(f) ==
    /\ flushing[f].seen # <<>>
    /\ LET s == flushing[f].seen[1] IN
          /\ multipliers' = [multipliers EXCEPT ![s] = flushing[f].seen[2]]
          /\ excused' = IF \E g \in Flusher : Latest(g, s) THEN excused ELSE excused \cup {s}
    /\ flushing' = [flushing EXCEPT ![f].seen = <<>>]
    /\ UNCHANGED <<names, plugged, scene, subscribed, queue, pending, unlisted, scenes, losses>>

Flush(f) ==
    \/ Debounced(f) \/ CalculateAllMonitors(f) \/ StoreMultiplier(f)
    \/ \E s \in Display : Measure(f, s)

FbNext ==
    \/ Receive \/ Subscribe \/ OtherLine
    \/ \E s \in Display : NewScene(s) \/ Plug(s)
    \/ \E f \in Flusher : Flush(f) \/ Disconnected(f)

FbFairness ==
    /\ WF_fbVars(Receive) /\ WF_fbVars(Subscribe)
    /\ \A f \in Flusher : WF_fbVars(Flush(f))

(***************************************************************************)
(* In the end every screen in the list has the multiplier of what it       *)
(* shows, and the list is that of the monitors, however many flushes       *)
(* overlap and although the channel may be full.  Excused are the screens  *)
(* whose change was heard by nobody (between two connections, in a channel *)
(* full of other lines, or left in it when the connection ended), whose    *)
(* last measurement failed or was stored before an older one, and the list *)
(* whose last refresh failed or was never asked for.                       *)
(***************************************************************************)
MultiplierFollows ==
    FbFairness =>
      <>[](/\ \A s \in names \cap plugged : s \in excused \/ multipliers[s] = scene[s]
           /\ unlisted \/ names = plugged)
=============================================================================
