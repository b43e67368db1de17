------------------------------- MODULE Volume -------------------------------
(***************************************************************************)
(* VolumeAction (pulse.cpp): each call makes a PulseAudio object of its    *)
(* own, connects, asks for the name of the default sink and for the sink,  *)
(* reads volume and mute, and sends the change.                            *)
(*                                                                         *)
(* init() returns without an exception when it fails, and defaultSink_ is  *)
(* then not initialised.  When it succeeds, defaultSink_ points to the     *)
(* pa_sink_info the callback was given, which is libpulse's and gone when  *)
(* the callback has returned: what is read through it is what the memory   *)
(* holds by then.                                                          *)
(***************************************************************************)
EXTENDS Integers

CONSTANTS Workers,
          Ops,          \* records [name, val]: set, incr, mute
          Garbage,      \* values memory that is not the sink may hold
          MaxCalls,     \* bound: calls of the action
          NoOp

Most == 200             \* 2.0f, in per cent

VARIABLES volume, muted,     \* the sink
          plugged,           \* it is there
          pc, op,            \* what each worker does, and the call it serves
          state,             \* state_: connecting, connected, error
          sink,              \* defaultSink_: unset, or dangling
          copy,              \* what the sink was when the callback ran
          seen,              \* volume and mute as they were read
          told,              \* the last answer: volume and mute as told
          calls,
          down,              \* the daemon crashed
          fault,             \* history: calls that met a fault
          stale              \* history: calls that others changed the sink in

device == <<volume, muted, plugged>>
locals == <<op, state, sink, copy, seen>>
history == <<fault, stale>>
vars == <<device, pc, locals, told, calls, down, history>>

Sinks == [volume : 0..Most, muted : BOOLEAN]
Nothing == [volume |-> 0, muted |-> FALSE]

Init == /\ volume = 40 /\ muted = FALSE /\ plugged = TRUE
        /\ pc = [w \in Workers |-> "idle"]
        /\ op = [w \in Workers |-> NoOp]
        /\ state = [w \in Workers |-> "connecting"]
        /\ sink = [w \in Workers |-> "unset"]
        /\ copy = [w \in Workers |-> Nothing]
        /\ seen = [w \in Workers |-> Nothing]
        /\ told = Nothing
        /\ calls = 0
        /\ down = FALSE
        /\ fault = {} /\ stale = {}

Goto(w, from, to) ==
    ~down /\ pc[w] = from /\ pc' = [pc EXCEPT ![w] = to]

Clamp(v) == IF v < 0 THEN 0 ELSE IF v > Most THEN Most ELSE v

Begin(w, o) ==
    /\ calls < MaxCalls
    /\ Goto(w, "idle", "connect")
    /\ op' = [op EXCEPT ![w] = o]
    /\ told' = Nothing
    /\ calls' = calls + 1
    /\ fault' = fault \ {w}
    /\ stale' = stale \ {w}
    /\ UNCHANGED <<device, state, sink, copy, seen, down>>

\* pulseContextStateCallback: PA_CONTEXT_READY
Connect(w) ==
    /\ Goto(w, "connect", "sink")
    /\ state' = [state EXCEPT ![w] = "connected"]
    /\ UNCHANGED <<device, op, sink, copy, seen, told, calls, down, history>>

\* PA_CONTEXT_FAILED, or one of the early returns of init before it.
ConnectFails(w) ==
    /\ Goto(w, "connect", "read")
    /\ \/ state' = [state EXCEPT ![w] = "error"]
       \/ UNCHANGED state
    /\ fault' = fault \cup {w}
    /\ UNCHANGED <<device, op, sink, copy, seen, told, calls, down, stale>>

\* The server's information and the sink's: pulseSinkInfoCallback.  Without the
\* sink it is only called with eol, and sets nothing.
SinkInfo(w) ==
    /\ Goto(w, "sink", "read")
    /\ sink' = [sink EXCEPT ![w] = IF plugged THEN "dangling" ELSE @]
    /\ copy' = [copy EXCEPT ![w] = [volume |-> volume, muted |-> muted]]
    /\ fault' = IF plugged THEN fault ELSE fault \cup {w}
    /\ stale' = stale \ {w}
    /\ UNCHANGED <<device, op, state, seen, told, calls, down>>

Send(w) == IF op[w].name = "mute" THEN "mute" ELSE "volume"

\* getVolume and isMuted, while the memory still holds the sink.
ReadSink(w) ==
    /\ sink[w] = "dangling"
    /\ Goto(w, "read", Send(w))
    /\ seen' = [seen EXCEPT ![w] = copy[w]]
    /\ UNCHANGED <<device, op, state, sink, copy, told, calls, down, history>>

\* getVolume and isMuted read something else.
ReadGarbage(w) ==
    /\ Goto(w, "read", Send(w))
    /\ \E v \in Garbage, m \in BOOLEAN :
          seen' = [seen EXCEPT ![w] = [volume |-> v, muted |-> m]]
    /\ fault' = fault \cup {w}
    /\ UNCHANGED <<device, op, state, sink, copy, told, calls, down, stale>>

\* The pointer that was never set is no address, or the number of channels
\* read through it makes libpulse abort.
Crash(w) ==
    /\ ~down
    /\ \/ pc[w] = "read" /\ sink[w] = "unset"
       \/ pc[w] \in {"volume", "mute"} /\ w \in fault
    /\ down' = TRUE
    /\ UNCHANGED <<device, pc, locals, told, calls, history>>

\* Variant of NewVolume: clamped by setVolume only when it is set.
NewVolumeUnclamped(w) ==
    IF op[w].name = "incr" THEN seen[w].volume + op[w].val
                           ELSE Clamp(op[w].val)

NewVolume(w) ==
    Clamp(IF op[w].name = "incr" THEN seen[w].volume + op[w].val
                                 ELSE op[w].val)

\* A change arrives when the connection stands and the sink is there; the
\* success callback does not look at its result, so the call succeeds anyway.
Arrives(w) == state[w] = "connected" /\ plugged
Change(w) == stale' = stale \cup {v \in Workers \ {w} : pc[v] # "idle"}

\* The answer, and the PulseAudio object is gone.
Answer(w, v, m) == /\ told' = [volume |-> v, muted |-> m]
                   /\ op' = [op EXCEPT ![w] = NoOp]
                   /\ state' = [state EXCEPT ![w] = "connecting"]
                   /\ sink' = [sink EXCEPT ![w] = "unset"]
                   /\ copy' = [copy EXCEPT ![w] = Nothing]
                   /\ seen' = [seen EXCEPT ![w] = Nothing]

\* setVolume.  No change is made while the context looks like connecting:
\* iterate gets no operation, and waits for the connection instead.
SetVolume(w) ==
    /\ state[w] # "connecting"
    /\ Goto(w, "volume", "idle")
    /\ volume' = IF Arrives(w) THEN NewVolume(w) ELSE volume
    /\ Answer(w, NewVolume(w), seen[w].muted)
    /\ Change(w)
    /\ UNCHANGED <<muted, plugged, calls, down, fault>>

\* Variant of ToggleMute: the answer is the old state.
ToggleMuteTellsOld(w) ==
    /\ state[w] # "connecting"
    /\ Goto(w, "mute", "idle")
    /\ muted' = IF Arrives(w) THEN ~seen[w].muted ELSE muted
    /\ Answer(w, seen[w].volume, seen[w].muted)
    /\ Change(w)
    /\ UNCHANGED <<volume, plugged, calls, down, fault>>

\* toggleMute reads the pointer once more.
ToggleMute(w) ==
    /\ state[w] # "connecting"
    /\ Goto(w, "mute", "idle")
    /\ \E m \in {seen[w].muted} \cup (IF w \in fault THEN BOOLEAN ELSE {}) :
          muted' = IF Arrives(w) THEN ~m ELSE muted
    /\ Answer(w, seen[w].volume, ~seen[w].muted)
    /\ Change(w)
    /\ UNCHANGED <<volume, plugged, calls, down, fault>>

Unplug ==
    /\ plugged
    /\ plugged' = FALSE
    /\ UNCHANGED <<volume, muted, pc, locals, told, calls, down, history>>

Next == \/ Unplug
        \/ \E w \in Workers :
              \/ \E o \in Ops : Begin(w, o)
              \/ Connect(w) \/ ConnectFails(w) \/ SinkInfo(w)
              \/ ReadSink(w) \/ ReadGarbage(w) \/ Crash(w)
              \/ SetVolume(w) \/ ToggleMute(w)

-----------------------------------------------------------------------------
(* Properties                                                              *)

\* The sink is never set louder than 200 per cent, whatever has been read, and
\* the daemon crashes only after a fault: a connection that failed, a sink that
\* was gone, or memory that no longer held it (pulse.cpp:82, 118-145, 205).
VolumeBounded ==
    /\ volume \in 0..Most
    /\ down => fault # {}

\* A call that met no fault did what it said: the sink is as told when it
\* answers, unless it was unplugged; and an increment or a toggle is relative to
\* what the sink was just before, unless another call overlapped
\* (pulse.cpp:192-216).
ToldIsTrue ==
    [][\A w \in Workers :
          pc[w] \in {"volume", "mute"} /\ pc'[w] = "idle" /\ w \notin fault
          /\ plugged =>
             IF op[w].name = "mute"
             THEN /\ muted' = told'.muted
                  /\ w \in stale \/ muted' = ~muted
             ELSE /\ volume' = told'.volume
                  /\ \/ op[w].name = "set" \/ w \in stale
                     \/ volume' = Clamp(volume + op[w].val)]_vars
=============================================================================
