----------------------------- MODULE Backlight -----------------------------
(***************************************************************************)
(* The two brightness actions of display.cpp, run by several workers: each *)
(* reads a file of the kernel, computes, switches the screen when it must, *)
(* and writes the file, with no lock around them.                          *)
(*                                                                         *)
(* The screen counts in fractions of max_brightness, as floats, and is set *)
(* in per cent; what is written is the fraction cut to a unit of the file. *)
(* Here a fraction is counted in thousandths of a unit, exactly or with    *)
(* the error that the roundings of float can add up to.  Where the code    *)
(* uses a float twice, the two uses may err differently.                   *)
(***************************************************************************)
EXTENDS Integers, FiniteSets

CONSTANTS Workers,
          Ops,            \* records [device, name, val]: the calls made
          BrightnessMax,  \* max_brightness of "screen" and of "keyboard"
          MaxCalls,       \* bound: calls of the two actions
          NoOp

Devices == {"screen", "keyboard"}

VARIABLES raw,        \* what the brightness files hold
          lit,        \* the screen is on
          present,    \* the brightness files exist
          dpms,       \* the X server: ok, missing (no DPMS), or unreachable
          pc, op,     \* what each worker does, and the call it serves
          new,        \* the brightness it is to write
          calls,
          down,       \* a null pointer was used
          stale,      \* history: the device was changed after the worker's read
          raced,      \* history: a stale worker has changed it too
          missed      \* history: the screen was switched off, and the write of
                      \* its 0 failed

files == <<raw, lit>>
environment == <<present, dpms>>
worker == <<pc, op, new>>
history == <<stale, raced, missed>>
vars == <<files, environment, worker, calls, down, history>>

Init == /\ raw \in [Devices -> {1}]
        /\ lit = TRUE
        /\ present \in {[d \in Devices |-> TRUE],
                        [d \in Devices |-> d = "screen"]}
        /\ dpms \in {"ok", "missing", "unreachable"}
        /\ pc = [w \in Workers |-> "idle"]
        /\ op = [w \in Workers |-> NoOp]
        /\ new = [w \in Workers |-> 0]
        /\ calls = 0
        /\ down = FALSE
        /\ stale = [w \in Workers |-> FALSE]
        /\ raced = FALSE
        /\ missed = FALSE

Goto(w, from, to) ==
    ~down /\ pc[w] = from /\ pc' = [pc EXCEPT ![w] = to]

\* The action returns or throws, and its locals are gone.
Forget(w) == /\ op' = [op EXCEPT ![w] = NoOp]
             /\ new' = [new EXCEPT ![w] = 0]

Clamp(v, low, high) == IF v < low THEN low ELSE IF v > high THEN high ELSE v

\* The sum of which new_brightness is the float, before the clamp; b is what has
\* been read.
Sum(o, b) ==
    (IF o.name = "incr" THEN b * 1000 ELSE 0) + o.val * (10 * BrightnessMax["screen"])

\* What the roundings to the 24 bits of a float add up to: less than four times
\* 2^-24 of the maximum.  From 100 per cent on, the clamp leaves nothing of it.
Error(o) == IF o.val < 100 THEN 1 + BrightnessMax["screen"] \div 4194 ELSE 0

\* What float can make of new_brightness, and of its product with the maximum.
Float(o, b) ==
    {Clamp(Sum(o, b) + e, 0, 1000 * BrightnessMax["screen"]) :
        e \in {0} \cup (-Error(o) .. Error(o) - 1)}

\* new_brightness < 0.001f
Dark(thousandths) == thousandths < BrightnessMax["screen"]

\* Variant of Keyboard: toggle only knows full and off.
KeyboardTogglesFull(o, b) ==
    LET most == BrightnessMax["keyboard"]
    IN CASE o.name = "on" -> most
         [] o.name = "off" -> 0
         [] o.name = "toggle" -> IF b = most THEN 0 ELSE most
         [] o.name = "set" -> Clamp(o.val, 0, most)
         [] o.name = "incr" -> Clamp(b + o.val, 0, most)

\* the branches of KeyboardBacklightAction::actOn
Keyboard(o, b) ==
    LET most == BrightnessMax["keyboard"]
    IN CASE o.name = "on" -> most
         [] o.name = "off" -> 0
         [] o.name = "toggle" -> IF b # 0 THEN 0 ELSE most
         [] o.name = "set" -> Clamp(o.val, 0, most)
         [] o.name = "incr" -> Clamp(b + o.val, 0, most)

\* brightness < 0.001f && new_brightness > brightness: an increment of a per cent
\* is more than any error, so floats compare as the numbers do.
TurnsOn(o, b) ==
    Dark(b * 1000) /\ Clamp(Sum(o, b), 0, 1000 * BrightnessMax["screen"]) > b * 1000

\* A worker has changed the device: what the others have read of it is stale.
Change(w) ==
    /\ stale' = [v \in Workers |->
                   stale[v] \/ (v # w /\ pc[v] \notin {"idle", "read"}
                                      /\ op[v].device = op[w].device)]
    /\ raced' = (raced \/ stale[w])

-----------------------------------------------------------------------------
Begin(w, o) ==
    /\ calls < MaxCalls
    /\ Goto(w, "idle", "read")
    /\ op' = [op EXCEPT ![w] = o]
    /\ calls' = calls + 1
    /\ stale' = [stale EXCEPT ![w] = FALSE]
    /\ UNCHANGED <<files, environment, new, down, raced, missed>>

Computes(w, next, value) ==
    Goto(w, "read", next) /\ new' = [new EXCEPT ![w] = value]

\* BrightnessChangeAction, when it has read b: n is new_brightness where it is
\* compared, m where it is multiplied and cut.  The second comparison of line 59
\* follows from the first.
ChangeBrightness(w, b) ==
    \E n, m \in Float(op[w], b) :
       \/ TurnsOn(op[w], b) /\ Computes(w, "turn_on", m \div 1000)
       \/ ~TurnsOn(op[w], b) /\ Dark(n) /\ Computes(w, "turn_off", 0)
       \/ ~TurnsOn(op[w], b) /\ ~Dark(n) /\ Computes(w, "dump", m \div 1000)

\* Fs::parse, of max_brightness and of brightness, and what follows from them.
Read(w) ==
    LET o == op[w]
        b == raw[o.device]
    IN /\ pc[w] = "read"
       /\ present[o.device]
       /\ \/ o.device = "screen" /\ ChangeBrightness(w, b)
          \/ o.device = "keyboard" /\ Computes(w, "dump", Keyboard(o, b))
       /\ stale' = [stale EXCEPT ![w] = FALSE]
       /\ UNCHANGED <<files, environment, op, calls, down, raced, missed>>

\* fopen fails, and vfscanf is given a null pointer.
ReadCrashes(w) ==
    /\ ~down
    /\ pc[w] = "read"
    /\ ~present[op[w].device]
    /\ down' = TRUE
    /\ UNCHANGED <<files, environment, worker, calls, history>>

\* Variant of SetScreenPower: the screen is left as it is when there is DPMS.
ForgetScreenPower(w) ==
    /\ dpms = "ok"
    /\ pc[w] \in {"turn_on", "turn_off"}
    /\ Goto(w, pc[w], "dump")
    /\ lit' = (lit /\ pc[w] = "turn_on")
    /\ Change(w)
    /\ missed' = FALSE
    /\ UNCHANGED <<raw, environment, op, new, calls, down>>

\* setScreenPower
SetScreenPower(w) ==
    /\ dpms = "ok"
    /\ pc[w] \in {"turn_on", "turn_off"}
    /\ Goto(w, pc[w], "dump")
    /\ lit' = (pc[w] = "turn_on")
    /\ Change(w)
    /\ missed' = FALSE
    /\ UNCHANGED <<raw, environment, op, new, calls, down>>

\* No DPMS extension: the action throws before it writes.
NoDPMS(w) ==
    /\ dpms = "missing"
    /\ pc[w] \in {"turn_on", "turn_off"}
    /\ Goto(w, pc[w], "idle")
    /\ Forget(w)
    /\ UNCHANGED <<files, environment, calls, down, history>>

\* XOpenDisplay returned null, and nobody looks.
NoDisplay(w) ==
    /\ ~down
    /\ dpms = "unreachable"
    /\ pc[w] \in {"turn_on", "turn_off"}
    /\ down' = TRUE
    /\ UNCHANGED <<files, environment, worker, calls, history>>

\* Fs::dump
Dump(w) ==
    /\ Goto(w, "dump", "idle")
    /\ raw' = [raw EXCEPT ![op[w].device] = new[w]]
    /\ Change(w)
    /\ Forget(w)
    /\ UNCHANGED <<lit, environment, calls, down, missed>>

\* The kernel refuses what dump writes.  dump does not look at fclose, and its
\* callers do not look at what it returns: the call answers as if it had worked.
DumpFails(w) ==
    /\ Goto(w, "dump", "idle")
    /\ missed' = (missed \/ (op[w].device = "screen" /\ new[w] = 0 /\ ~lit))
    /\ Forget(w)
    /\ UNCHANGED <<files, environment, calls, down, stale, raced>>

\* The file may not be written: fopen fails, and vfprintf is given a null
\* pointer.
DumpCrashes(w) ==
    /\ ~down
    /\ pc[w] = "dump"
    /\ down' = TRUE
    /\ UNCHANGED <<files, environment, worker, calls, history>>

Next == \E w \in Workers :
           \/ \E o \in Ops : Begin(w, o)
           \/ Read(w) \/ ReadCrashes(w)
           \/ SetScreenPower(w) \/ NoDPMS(w) \/ NoDisplay(w)
           \/ Dump(w) \/ DumpFails(w) \/ DumpCrashes(w)

-----------------------------------------------------------------------------
(* Properties                                                              *)

\* Every variable has its type; no call, whatever it read, writes more than
\* max_brightness or less than nothing.
TypeOK ==
    /\ \A d \in Devices : raw[d] \in 0..BrightnessMax[d]
    /\ lit \in BOOLEAN
    /\ pc \in [Workers -> {"idle", "read", "turn_on", "turn_off", "dump"}]
    /\ op \in [Workers -> Ops \cup {NoOp}]
    /\ \A w \in Workers : op[w] # NoOp => new[w] \in 0..BrightnessMax[op[w].device]
    /\ calls \in 0..MaxCalls
    /\ down \in BOOLEAN
    /\ stale \in [Workers -> BOOLEAN] /\ raced \in BOOLEAN
    /\ missed \in BOOLEAN

\* A dark screen has brightness 0, so that the next call that raises it turns
\* it on (display.cpp:57): else a worker is about to write the 0, or its write
\* failed since the screen was last switched, or the daemon ended before it, or
\* two calls have overlapped.
DarkMeansZero ==
    \/ lit
    \/ raw["screen"] = 0
    \/ raced \/ down \/ missed
    \/ \E w \in Workers : pc[w] = "dump" /\ op[w].device = "screen" /\ new[w] = 0

\* What a call is to leave of a brightness b, as the help text has it.  The
\* keyboard is to have the value of its range nearest to the one asked for.  A
\* screen is to have the sum, cut to a unit and to the range, and 0 when that is
\* darker than a thousandth; the error of float may count as part of the sum.
Asked(o, b) ==
    LET most == BrightnessMax[o.device]
        scale == IF o.device = "screen" THEN 10 * most ELSE 1000
        sum == (IF o.name = "incr" THEN b * 1000 ELSE 0) + o.val * scale
        value == CASE o.name = "on" -> most
                   [] o.name = "off" -> 0
                   [] o.name = "toggle" -> IF b = 0 THEN most ELSE 0
                   [] OTHER -> sum \div 1000
    IN IF o.device = "keyboard"
       THEN {v \in 0..most :
               \A u \in 0..most :
                  (v - value) * (v - value) <= (u - value) * (u - value)}
       ELSE {v \in 0..most :
               /\ v > 0 => v * 1000 <= sum + Error(o) /\ most <= sum + Error(o)
               /\ \/ v = most
                  \/ sum < (v + 1) * 1000 + Error(o)
                  \/ v = 0 /\ sum < most + Error(o)}

\* A call whose write succeeds changes the device as if nobody else were there,
\* unless another one changed it between its read and its write: only then is a
\* change lost (display.cpp:48-64, 107-124).
LostOnlyByOverlap ==
    [][\A w \in Workers :
          Dump(w) /\ ~stale[w] =>
             raw'[op[w].device] \in Asked(op[w], raw[op[w].device])]_vars
=============================================================================
