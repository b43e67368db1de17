--------------------------- MODULE DevicesProofs ---------------------------
(***************************************************************************)
(* Proofs about Devices: for any number of workers, any commands and any   *)
(* range of the brightnesses, what the actions leave behind on a screen, a *)
(* keyboard, a sink and a player, and when what they answer is true.       *)
(***************************************************************************)
EXTENDS Devices, TLAPS

-----------------------------------------------------------------------------
(* Music: nothing was played for a command that has not ended.             *)

MusicInv ==
    /\ mPc \in [Workers -> {"call", "fork", "retry", "success", "error"}]
    /\ played \in [Workers -> Nat]
    /\ \A w \in Workers :
          mPc[w] \in {"call", "fork", "retry"} => played[w] = 0 /\ w \notin lost
    /\ M!PlayedOnce

LEMMA MusicInit == M!Init => MusicInv
BY DEF M!Init, MusicInv, M!PlayedOnce

\* A call the player answers, or executes without answering in time.
LEMMA CallKeeps ==
    ASSUME MusicInv, NEW w \in Workers, M!CallSucceeds(w) \/ M!CallFails(w)
    PROVE  MusicInv'
<1>1. mPc[w] \in {"call", "retry"} /\ played[w] = 0 /\ w \notin lost
  BY DEF MusicInv, M!CallSucceeds, M!CallFails, M!CanCall
<1>2. \/ /\ mPc' = [mPc EXCEPT ![w] = "success"]
         /\ played' = [played EXCEPT ![w] = @ + 1] /\ lost' = lost
      \/ /\ mPc' = [mPc EXCEPT ![w] = "error"]
         /\ played' = [played EXCEPT ![w] = @ + 1] /\ lost' = lost \cup {w}
      \/ /\ mPc' = [mPc EXCEPT ![w] = "error"]
         /\ played' = played /\ lost' = lost
  BY DEF M!CallSucceeds, M!CallFails, M!Goto
<1>3. /\ mPc' \in [Workers -> {"call", "fork", "retry", "success", "error"}]
      /\ played' \in [Workers -> Nat]
      /\ \A v \in Workers \ {w} : /\ mPc'[v] = mPc[v] /\ played'[v] = played[v]
                                  /\ v \in lost' <=> v \in lost
      /\ \/ mPc'[w] = "success" /\ played'[w] = 1 /\ w \notin lost'
         \/ mPc'[w] = "error" /\ played'[w] = 1 /\ w \in lost'
         \/ mPc'[w] = "error" /\ played'[w] = 0
  BY <1>1, <1>2 DEF MusicInv
<1> QED BY <1>3 DEF MusicInv, M!PlayedOnce

LEMMA MusicStep ==
    ASSUME MusicInv, M!Next \/ UNCHANGED music
    PROVE  MusicInv'
<1>1. CASE UNCHANGED <<mPc, played, lost>>
  BY <1>1 DEF MusicInv, M!PlayedOnce
<1>2. ASSUME NEW w \in Workers,
             M!ServiceUnknown(w) \/ M!Fork(w) \/ M!GiveUp(w)
      PROVE  MusicInv'
  <2>1. /\ mPc[w] \in {"call", "fork", "retry"} /\ played' = played /\ lost' = lost
        /\ \E l \in {"fork", "retry", "error"} : mPc' = [mPc EXCEPT ![w] = l]
    BY <1>2 DEF M!ServiceUnknown, M!Fork, M!GiveUp, M!CanCall, M!Goto
  <2> QED BY <2>1 DEF MusicInv, M!PlayedOnce
<1>3. ASSUME NEW w \in Workers, M!Act(w) PROVE MusicInv'
  BY <1>2, <1>3, CallKeeps DEF M!Act
<1> QED BY <1>1, <1>3 DEF M!Next, M!Exec, M!ExecFails, M!PlayerStarts,
           M!PlayerQuits, music

-----------------------------------------------------------------------------
(* Volume: what a call that met no fault knows of the sink.                *)

Now == [volume |-> volume, muted |-> muted]

VolumeTypes ==
    /\ volume \in 0..200 /\ muted \in BOOLEAN
    /\ vPc \in [Workers -> {"idle", "connect", "sink", "read", "volume", "mute"}]
    /\ vOp \in [Workers -> VolumeOps \cup {NoOp}]
    /\ state \in [Workers -> {"connecting", "connected", "error"}]
    /\ sink \in [Workers -> {"unset", "dangling"}]
    /\ copy \in [Workers -> [volume : 0..200, muted : BOOLEAN]]
    /\ seen \in [Workers -> [volume : Int, muted : BOOLEAN]]
    /\ \A w \in Workers : vPc[w] # "idle" => vOp[w] \in VolumeOps

\* Where a call is, when it met no fault and no other changed the sink in it.
Knows(w) ==
    /\ vPc[w] = "volume" => vOp[w].name # "mute"
    /\ vPc[w] = "mute" => vOp[w].name = "mute"
    /\ w \notin fault =>
          /\ vPc[w] \in {"sink", "read", "volume", "mute"} =>
                state[w] = "connected"
          /\ vPc[w] = "read" => sink[w] = "dangling"
          /\ vPc[w] = "read" /\ w \notin vStale => copy[w] = Now
          /\ vPc[w] \in {"volume", "mute"} /\ w \notin vStale => seen[w] = Now

VolumeInv == /\ VolumeTypes
             /\ \A w \in Workers : Knows(w)
             /\ vDown => fault # {}

LEMMA VolumeInit == V!Init => VolumeInv
<1> SUFFICES ASSUME V!Init PROVE VolumeInv
  OBVIOUS
<1>1. /\ volume \in 0..200 /\ muted \in BOOLEAN /\ ~vDown
      /\ \A w \in Workers : vPc[w] = "idle"
  <2>1. volume = 40 /\ muted = FALSE /\ vDown = FALSE
    BY DEF V!Init
  <2>2. \A w \in Workers : vPc[w] = "idle"
    BY DEF V!Init
  <2>3. volume \in 0..200
    BY <2>1
  <2>4. muted \in BOOLEAN /\ ~vDown
    BY ONLY <2>1, Zenon
  <2> QED BY <2>2, <2>3, <2>4
<1>2. /\ copy \in [Workers -> [volume : 0..200, muted : BOOLEAN]]
      /\ seen \in [Workers -> [volume : Int, muted : BOOLEAN]]
  BY DEF V!Init, V!Nothing
<1>3. VolumeTypes
  BY <1>1, <1>2 DEF V!Init, VolumeTypes
<1> QED BY <1>1, <1>3 DEF VolumeInv, Knows

LEMMA VolumeStep ==
    ASSUME VolumeInv, V!Next \/ UNCHANGED sound
    PROVE  VolumeInv'
<1> USE DEF V!Goto
<1>0. VolumeTypes /\ \A w \in Workers : Knows(w)
  BY DEF VolumeInv
<1>1. CASE UNCHANGED sound \/ V!Unplug
  BY <1>1 DEF sound, V!Unplug, V!locals, V!history, VolumeInv, VolumeTypes, Knows,
              Now
<1>2. ASSUME NEW w \in Workers, NEW o \in VolumeOps, V!Begin(w, o)
      PROVE  VolumeInv'
  <2>1. VolumeTypes'
    BY <1>0, <1>2 DEF V!Begin, V!device, VolumeTypes
  <2>2. ASSUME NEW v \in Workers PROVE Knows(v)'
    BY <1>0, <1>2 DEF V!Begin, V!device, VolumeTypes, Knows, Now
  <2> QED BY <1>2, <2>1, <2>2 DEF V!Begin, VolumeInv
<1>3. ASSUME NEW w \in Workers,
             V!Connect(w) \/ V!ConnectFails(w) \/ V!SinkInfo(w)
      PROVE  VolumeInv'
  <2>1. VolumeTypes'
    <3>1. CASE V!Connect(w)
      BY <1>0, <3>1 DEF V!Connect, V!device, VolumeTypes
    <3>2. CASE V!ConnectFails(w)
      BY <1>0, <3>2 DEF V!ConnectFails, V!device, VolumeTypes
    <3>3. CASE V!SinkInfo(w)
      <4>1. Now \in [volume : 0..200, muted : BOOLEAN]
        BY <1>0 DEF VolumeTypes, Now
      <4>2. copy' = [copy EXCEPT ![w] = Now]
        BY <3>3 DEF V!SinkInfo, Now
      <4>3. copy' \in [Workers -> [volume : 0..200, muted : BOOLEAN]]
        BY <1>0, <4>1, <4>2 DEF VolumeTypes
      <4>4. sink' \in [Workers -> {"unset", "dangling"}]
        BY <1>0, <3>3 DEF V!SinkInfo, VolumeTypes
      <4> QED BY <1>0, <3>3, <4>3, <4>4 DEF V!SinkInfo, V!device, VolumeTypes
    <3> QED BY <1>3, <3>1, <3>2, <3>3
  <2>2. ASSUME NEW v \in Workers PROVE Knows(v)'
    BY <1>0, <1>3 DEF V!Connect, V!ConnectFails, V!SinkInfo, V!device, V!history,
                      VolumeTypes, Knows, Now
  <2> QED BY <1>3, <2>1, <2>2 DEF V!Connect, V!ConnectFails, V!SinkInfo, VolumeInv
<1>4. ASSUME NEW w \in Workers, V!ReadSink(w) \/ V!ReadGarbage(w)
      PROVE  VolumeInv'
  <2>1. PICK s \in [volume : Int, muted : BOOLEAN] : seen' = [seen EXCEPT ![w] = s]
    <3>1. CASE V!ReadSink(w)
      <4>1. copy[w] \in [volume : 0..200, muted : BOOLEAN]
        BY <1>0 DEF VolumeTypes
      <4>2. copy[w] \in [volume : Int, muted : BOOLEAN]
        BY <4>1
      <4> QED BY <3>1, <4>2 DEF V!ReadSink
    <3>2. CASE V!ReadGarbage(w)
      <4>1. PICK g \in Garbage, m \in BOOLEAN :
               seen' = [seen EXCEPT ![w] = [volume |-> g, muted |-> m]]
        BY <3>2 DEF V!ReadGarbage
      <4> QED BY <4>1, GarbageOK
    <3> QED BY <1>4, <3>1, <3>2
  <2>3. seen' \in [Workers -> [volume : Int, muted : BOOLEAN]]
    BY <1>0, <2>1 DEF VolumeTypes
  <2>4. /\ vPc' \in [Workers -> {"idle", "connect", "sink", "read", "volume",
                                 "mute"}]
        /\ vPc[w] = "read" /\ \A v \in Workers \ {w} : vPc'[v] = vPc[v]
        /\ UNCHANGED <<volume, muted, vOp, state, sink, copy>>
    BY <1>0, <1>4 DEF V!ReadSink, V!ReadGarbage, V!Send, V!device, VolumeTypes
  <2>5. VolumeTypes'
    BY <1>0, <2>3, <2>4 DEF VolumeTypes
  <2>2. ASSUME NEW v \in Workers PROVE Knows(v)'
    BY <1>0, <1>4 DEF V!ReadSink, V!ReadGarbage, V!Send, V!device, V!history,
                      VolumeTypes, Knows, Now
  <2> QED BY <1>4, <2>2, <2>5 DEF V!ReadSink, V!ReadGarbage, V!history, VolumeInv
<1>5. ASSUME NEW w \in Workers, V!Crash(w)
      PROVE  VolumeInv'
  <2>1. VolumeTypes'
    BY <1>0, <1>5 DEF V!Crash, V!device, V!locals, VolumeTypes
  <2>2. ASSUME NEW v \in Workers PROVE Knows(v)'
    BY <1>0, <1>5 DEF V!Crash, V!device, V!locals, V!history, Knows, Now
  <2>3. w \in fault
    BY <1>0, <1>5 DEF V!Crash, Knows
  <2> QED BY <1>5, <2>1, <2>2, <2>3 DEF V!Crash, V!history, VolumeInv
<1>6. ASSUME NEW w \in Workers, V!SetVolume(w) \/ V!ToggleMute(w)
      PROVE  VolumeInv'
  <2>1. /\ vPc[w] \in {"volume", "mute"} /\ vPc' = [vPc EXCEPT ![w] = "idle"]
        /\ \E v, m : V!Answer(w, v, m)
        /\ V!Change(w)
        /\ UNCHANGED <<vDown, fault>>
    BY <1>6 DEF V!SetVolume, V!ToggleMute
  <2>2. /\ vOp' = [vOp EXCEPT ![w] = NoOp]
        /\ state' = [state EXCEPT ![w] = "connecting"]
        /\ sink' = [sink EXCEPT ![w] = "unset"]
        /\ copy' = [copy EXCEPT ![w] = V!Nothing]
        /\ seen' = [seen EXCEPT ![w] = V!Nothing]
    BY <2>1 DEF V!Answer
  <2>3. V!Nothing \in [volume : 0..200, muted : BOOLEAN]
    BY DEF V!Nothing
  <2>4. /\ copy' \in [Workers -> [volume : 0..200, muted : BOOLEAN]]
        /\ seen' \in [Workers -> [volume : Int, muted : BOOLEAN]]
    BY <1>0, <2>2, <2>3 DEF VolumeTypes
  <2>5. volume' \in 0..200 /\ muted' \in BOOLEAN
    <3>1. CASE V!SetVolume(w)
      <4>1. vOp[w].val \in Int /\ seen[w].volume \in Int
        BY <1>0, <2>1, VolumeOpsOK DEF VolumeTypes
      <4>2. V!NewVolume(w) \in 0..200
        BY <4>1 DEF V!NewVolume, V!Clamp, V!Most
      <4>3. /\ volume' = IF V!Arrives(w) THEN V!NewVolume(w) ELSE volume
            /\ muted' = muted
        BY <3>1 DEF V!SetVolume
      <4>4. volume' \in 0..200
        BY <1>0, <4>2, <4>3 DEF VolumeTypes
      <4>5. muted' \in BOOLEAN
        BY <1>0, <4>3, Zenon DEF VolumeTypes
      <4> QED BY <4>4, <4>5
    <3>2. CASE V!ToggleMute(w)
      <4>1. volume' = volume /\ \E m : muted' = IF V!Arrives(w) THEN ~m ELSE muted
        BY <3>2 DEF V!ToggleMute
      <4>2. \A m : (~m) \in BOOLEAN
        OBVIOUS
      <4>3. muted' \in BOOLEAN
        <5>1. CASE V!Arrives(w)
          BY <4>1, <4>2, <5>1
        <5>2. CASE ~V!Arrives(w)
          BY <1>0, <4>1, <5>2 DEF VolumeTypes
        <5> QED BY <5>1, <5>2
      <4>4. volume' \in 0..200
        BY <1>0, <4>1 DEF VolumeTypes
      <4> QED BY <4>3, <4>4
    <3> QED BY <1>6, <3>1, <3>2
  <2>6. VolumeTypes'
    BY <1>0, <2>1, <2>2, <2>4, <2>5 DEF VolumeTypes
  <2>7. ASSUME NEW v \in Workers PROVE Knows(v)'
    <3>1. CASE v = w
      <4>1. vPc'[w] = "idle"
        BY <1>0, <2>1 DEF VolumeTypes
      <4> QED BY <3>1, <4>1 DEF Knows
    <3>2. CASE v # w
      <4>1. /\ vPc'[v] = vPc[v] /\ vOp'[v] = vOp[v] /\ state'[v] = state[v]
            /\ sink'[v] = sink[v]
            /\ vPc[v] # "idle" => v \in vStale'
        BY <1>0, <2>1, <2>2, <3>2 DEF V!Change, VolumeTypes
      <4> QED BY <1>0, <2>1, <4>1 DEF Knows
    <3> QED BY <3>1, <3>2
  <2> QED BY <2>1, <2>6, <2>7, <1>0 DEF VolumeInv
<1> QED BY <1>1, <1>2, <1>3, <1>4, <1>5, <1>6 DEF V!Next

\* What a call answers that met no fault, while the sink is there.
Told(w) ==
    vPc[w] \in {"volume", "mute"} /\ vPc'[w] = "idle" /\ w \notin fault /\ plugged
    => IF vOp[w].name = "mute"
       THEN muted' = told'.muted /\ (w \in vStale \/ muted' = ~muted)
       ELSE /\ volume' = told'.volume
            /\ \/ vOp[w].name = "set" \/ w \in vStale
               \/ volume' = V!Clamp(volume + vOp[w].val)

LEMMA AnswersAreTrue ==
    ASSUME VolumeInv, V!Next \/ UNCHANGED sound, NEW w \in Workers
    PROVE  Told(w)
<1> SUFFICES ASSUME vPc[w] \in {"volume", "mute"}, vPc'[w] = "idle",
                    w \notin fault, plugged
             PROVE  IF vOp[w].name = "mute"
                    THEN muted' = told'.muted /\ (w \in vStale \/ muted' = ~muted)
                    ELSE /\ volume' = told'.volume
                         /\ \/ vOp[w].name = "set" \/ w \in vStale
                            \/ volume' = V!Clamp(volume + vOp[w].val)
  BY DEF Told
<1>0. /\ vPc \in [Workers -> {"idle", "connect", "sink", "read", "volume", "mute"}]
      /\ vOp[w] \in VolumeOps /\ Knows(w)
  BY DEF VolumeInv, VolumeTypes
<1>1. V!SetVolume(w) \/ V!ToggleMute(w)
  <2>1. PICK v \in Workers :
           \/ \E o \in VolumeOps : V!Begin(v, o)
           \/ V!Connect(v) \/ V!ConnectFails(v) \/ V!SinkInfo(v)
           \/ V!ReadSink(v) \/ V!ReadGarbage(v)
           \/ V!SetVolume(v) \/ V!ToggleMute(v)
    BY <1>0 DEF V!Next, V!Unplug, V!Crash, sound
  <2>2. /\ \E l : vPc' = [vPc EXCEPT ![v] = l]
        /\ V!SetVolume(v) \/ V!ToggleMute(v) \/ vPc'[v] # "idle"
    BY <1>0, <2>1 DEF V!Goto, V!Begin, V!Connect, V!ConnectFails, V!SinkInfo,
       V!ReadSink, V!ReadGarbage, V!SetVolume, V!ToggleMute, V!Send
  <2> QED BY <1>0, <2>2
<1>2. V!Arrives(w)
  BY <1>0 DEF V!Arrives, Knows
<1>3. w \in vStale \/ (seen[w].volume = volume /\ seen[w].muted = muted)
  BY <1>0 DEF Knows, Now
<1>4. CASE V!SetVolume(w)
  <2>1. vPc[w] = "volume" /\ vOp[w].name \in {"set", "incr"}
    BY <1>0, <1>4, VolumeOpsOK DEF V!SetVolume, V!Goto, Knows
  <2>2. volume' = V!NewVolume(w) /\ told'.volume = V!NewVolume(w)
    BY <1>2, <1>4 DEF V!SetVolume, V!Answer
  <2>3. vOp[w].name = "set" \/ V!NewVolume(w) = V!Clamp(seen[w].volume + vOp[w].val)
    BY <2>1 DEF V!NewVolume
  <2> QED BY <1>3, <2>1, <2>2, <2>3
<1>5. CASE V!ToggleMute(w)
  <2>1. vOp[w].name = "mute"
    BY <1>0, <1>5 DEF V!ToggleMute, V!Goto, Knows
  <2>2. muted' = ~seen[w].muted /\ told'.muted = ~seen[w].muted
    BY <1>2, <1>5 DEF V!ToggleMute, V!Answer
  <2> QED BY <1>3, <2>1, <2>2
<1> QED BY <1>1, <1>4, <1>5

-----------------------------------------------------------------------------
(* Backlight: what a call writes                                           *)

\* A greater distance has a greater square.
LEMMA Squares ==
    ASSUME NEW a \in Nat, NEW d \in Nat \ {0}
    PROVE  /\ (a + d) * (a + d) > a * a
           /\ (-a - d) * (-a - d) > a * a /\ (a + d) * (a + d) > (-a) * (-a)
           /\ (-a - d) * (-a - d) > (-a) * (-a)
<1>1. a * d \in Nat /\ d * d > 0 /\ a * a \in Nat /\ d * d \in Nat
  OBVIOUS
<1>2. (a + d) * (a + d) = a * a + 2 * (a * d) + d * d
  OBVIOUS
<1>3. (a + d) * (a + d) > a * a
  BY <1>1, <1>2
<1>4. (-a - d) * (-a - d) = (a + d) * (a + d) /\ (-a) * (-a) = a * a
  OBVIOUS
<1> QED BY <1>3, <1>4

\* What clamp returns is in the range, and nothing of the range is nearer.
LEMMA ClampIsNearest ==
    ASSUME NEW most \in Nat, NEW value \in Int
    PROVE  B!Clamp(value, 0, most) \in
              {v \in 0..most :
                 \A u \in 0..most :
                    (v - value) * (v - value) <= (u - value) * (u - value)}
<1> DEFINE Far(u) == (u - value) * (u - value)
<1>1. PICK c \in 0..most : /\ c = B!Clamp(value, 0, most)
                           /\ c = value \/ (c = 0 /\ value < 0)
                                        \/ (c = most /\ value > most)
  BY DEF B!Clamp
<1>2. \A u \in 0..most : Far(u) \in Int
  OBVIOUS
<1>3. ASSUME NEW u \in 0..most, u # c PROVE Far(c) < Far(u)
  <2>1. CASE c = value
    <3>1. PICK d \in Nat \ {0} : u - value = d \/ u - value = -0 - d
      <4>1. \/ u - value \in Nat \ {0}
            \/ value - u \in Nat \ {0} /\ u - value = -0 - (value - u)
        BY <1>3, <2>1
      <4> QED BY <4>1
    <3>2. Far(u) > 0 * 0
      BY <3>1, Squares
    <3> QED BY <2>1, <3>2
  <2>2. CASE c = 0 /\ value < 0
    <3>1. PICK a \in Nat, d \in Nat \ {0} : c - value = a /\ u - value = a + d
      <4>1. /\ -value \in Nat /\ u \in Nat \ {0}
            /\ c - value = -value /\ u - value = (-value) + u
        BY <1>3, <2>2
      <4> QED BY <4>1
    <3> QED BY <3>1, Squares
  <2>3. CASE c = most /\ value > most
    <3>1. PICK a \in Nat, d \in Nat \ {0} : c - value = -a /\ u - value = -a - d
      <4>1. /\ value - most \in Nat /\ most - u \in Nat \ {0}
            /\ c - value = -(value - most)
            /\ u - value = -(value - most) - (most - u)
        BY <1>3, <2>3
      <4> QED BY <4>1
    <3> QED BY <3>1, Squares
  <2> QED BY <1>1, <2>1, <2>2, <2>3
<1>4. \A u \in 0..most : Far(c) <= Far(u)
  BY <1>2, <1>3
<1> QED BY <1>1, <1>4 DEF Far

\* The range of a device, and a call of it.
LEMMA Calls ==
    ASSUME NEW o \in BacklightOps
    PROVE  /\ o # NoOp /\ o.val \in Int
           /\ BrightnessMax[o.device] \in Nat \ {0}
           /\ \/ o.device = "screen" /\ o.name \in {"incr", "set"}
              \/ /\ o.device = "keyboard"
                 /\ o.name \in {"on", "off", "toggle", "set", "incr"}
BY BacklightOpsOK, BrightnessMaxOK

\* The keyboard gets the nearest value of its range.
LEMMA KeyboardIsAsked ==
    ASSUME NEW o \in BacklightOps, o.device = "keyboard",
           NEW b \in 0..BrightnessMax["keyboard"]
    PROVE  /\ B!Keyboard(o, b) \in B!Asked(o, b)
           /\ B!Keyboard(o, b) \in 0..BrightnessMax["keyboard"]
<1> DEFINE most == BrightnessMax["keyboard"]
           sum == (IF o.name = "incr" THEN b * 1000 ELSE 0) + o.val * 1000
           value == CASE o.name = "on" -> most
                      [] o.name = "off" -> 0
                      [] o.name = "toggle" -> IF b = 0 THEN most ELSE 0
                      [] OTHER -> sum \div 1000
<1>1. most \in Nat \ {0} /\ o.val \in Int
  BY Calls
<1>2. /\ o.name = "incr" => value = b + o.val
      /\ o.name = "set" => value = o.val
      /\ o.name = "on" => value = most
      /\ o.name = "off" => value = 0
      /\ o.name = "toggle" => value = IF b = 0 THEN most ELSE 0
  BY <1>1
<1>3. B!Asked(o, b) = {v \in 0..most :
                         \A u \in 0..most :
                            (v - value) * (v - value) <= (u - value) * (u - value)}
  BY DEF B!Asked
<1> HIDE DEF sum, value
<1>4. value \in Int /\ B!Keyboard(o, b) = B!Clamp(value, 0, most)
  BY <1>1, <1>2, Calls DEF B!Keyboard, B!Clamp
<1>5. B!Keyboard(o, b) \in B!Asked(o, b)
  BY <1>1, <1>3, <1>4, ClampIsNearest
<1> QED BY <1>1, <1>3, <1>5

\* The numbers of a call of the screen.  One that is to turn it on asks for a per
\* cent at least.
LEMMA Sums ==
    ASSUME NEW o \in BacklightOps, o.device = "screen",
           NEW b \in 0..BrightnessMax["screen"]
    PROVE  /\ BrightnessMax["screen"] \in Nat \ {0}
           /\ B!Sum(o, b) \in Int
           /\ B!Error(o) \in 0..BrightnessMax["screen"]
           /\ B!TurnsOn(o, b) => B!Sum(o, b) >= 10 * BrightnessMax["screen"]
           /\ b = 0 /\ B!Sum(o, b) > 0 => B!TurnsOn(o, b)
<1> DEFINE most == BrightnessMax["screen"]
           base == IF o.name = "incr" THEN b * 1000 ELSE 0
<1>1. most \in Nat \ {0} /\ o.val \in Int /\ base \in 0..b * 1000
  BY Calls
<1>2. PICK part \in Int : part = o.val * (10 * most)
  BY <1>1
<1>3. part > 0 => part >= 10 * most
  <2> SUFFICES ASSUME part > 0 PROVE part >= 10 * most
    OBVIOUS
  <2>1. CASE o.val <= 0
    <3>1. PICK minus \in Nat : minus = -o.val
      BY <1>1, <2>1
    <3>2. part = -(minus * (10 * most)) /\ minus * (10 * most) \in Nat
      BY <1>1, <1>2, <3>1
    <3> QED BY <3>2
  <2>2. CASE o.val >= 1
    <3>1. PICK more \in Nat : o.val = 1 + more
      BY <1>1, <2>2
    <3>2. part = 10 * most + more * (10 * most) /\ more * (10 * most) \in Nat
      BY <1>1, <1>2, <3>1
    <3> QED BY <1>1, <3>2
  <2> QED BY <1>1, <2>1, <2>2
<1>4. B!Sum(o, b) = base + part
  BY <1>2 DEF B!Sum
<1>5. B!Error(o) \in 0..most
  <2>1. most \div 4194 \in Nat /\ 1 + most \div 4194 <= most
    BY <1>1
  <2> QED BY <1>1, <2>1 DEF B!Error
<1> HIDE DEF most, base
<1>6. B!TurnsOn(o, b) => part > 0
  BY <1>1, <1>2, <1>4 DEF B!TurnsOn, B!Clamp, most
<1>7. b = 0 /\ B!Sum(o, b) > 0 => B!TurnsOn(o, b)
  BY <1>1, <1>2, <1>4 DEF B!TurnsOn, B!Clamp, B!Dark, most
<1> QED BY <1>1, <1>2, <1>3, <1>4, <1>5, <1>6, <1>7 DEF most

\* What float can make of a sum is in the range and near the sum.
LEMMA FloatIsNear ==
    ASSUME NEW o \in BacklightOps, o.device = "screen",
           NEW b \in 0..BrightnessMax["screen"], NEW n \in B!Float(o, b)
    PROVE  /\ n \in 0..1000 * BrightnessMax["screen"]
           /\ n > 0 => n <= B!Sum(o, b) \/ n < B!Sum(o, b) + B!Error(o)
           /\ n < 1000 * BrightnessMax["screen"] => n >= B!Sum(o, b) - B!Error(o)
<1>1. PICK e \in {0} \cup (-B!Error(o) .. B!Error(o) - 1) :
         n = B!Clamp(B!Sum(o, b) + e, 0, 1000 * BrightnessMax["screen"])
  BY DEF B!Float
<1>2. /\ e \in Int
      /\ e <= 0 \/ e < B!Error(o)
      /\ e >= -B!Error(o)
  BY <1>1, Sums
<1> QED BY <1>1, <1>2, Sums DEF B!Clamp

\* Whatever the errors of a call of the screen are, it ends within what is asked;
\* and one that leaves the power alone has not read 0.
LEMMA ScreenIsAsked ==
    ASSUME NEW o \in BacklightOps, o.device = "screen",
           NEW b \in 0..BrightnessMax["screen"],
           NEW n \in B!Float(o, b), NEW m \in B!Float(o, b)
    PROVE  /\ m \div 1000 \in 0..BrightnessMax["screen"]
           /\ B!TurnsOn(o, b) => m \div 1000 \in B!Asked(o, b)
           /\ B!Dark(n) => 0 \in B!Asked(o, b)
           /\ ~B!TurnsOn(o, b) /\ ~B!Dark(n) => m \div 1000 \in B!Asked(o, b)
           /\ ~B!TurnsOn(o, b) /\ ~B!Dark(n) => b # 0
<1> DEFINE most == BrightnessMax["screen"]
           sum == B!Sum(o, b)
           error == B!Error(o)
           v == m \div 1000
<1>1. /\ most \in Nat \ {0} /\ sum \in Int /\ error \in 0..most
      /\ B!TurnsOn(o, b) => sum >= 10 * most
      /\ b = 0 /\ sum > 0 => B!TurnsOn(o, b)
  BY Sums
<1>2. /\ n \in 0..1000 * most
      /\ n > 0 => n <= sum \/ n < sum + error
      /\ n < 1000 * most => n >= sum - error
  BY FloatIsNear
<1>3. /\ m \in 0..1000 * most
      /\ m > 0 => m <= sum \/ m < sum + error
      /\ m < 1000 * most => m >= sum - error
  BY FloatIsNear
<1>4. v \in 0..most /\ v * 1000 <= m /\ m < (v + 1) * 1000
  BY <1>1, <1>3
<1>5. B!Asked(o, b) = {u \in 0..most :
                         /\ u > 0 => u * 1000 <= sum + error /\ most <= sum + error
                         /\ \/ u = most
                            \/ sum < (u + 1) * 1000 + error
                            \/ u = 0 /\ sum < most + error}
  BY DEF B!Asked, B!Sum
<1>6. B!Dark(n) <=> n < most
  BY DEF B!Dark
<1> HIDE DEF most, sum, error, v
<1>7. v = most \/ sum < (v + 1) * 1000 + error
  BY <1>1, <1>3, <1>4
<1>8. v > 0 => v * 1000 <= sum + error
  BY <1>1, <1>3, <1>4
<1>9. B!TurnsOn(o, b) \/ ~B!Dark(n) => most <= sum + error
  BY <1>1, <1>2, <1>6
<1>10. B!Dark(n) => 0 \in B!Asked(o, b)
  BY <1>1, <1>2, <1>5, <1>6
<1>11. B!TurnsOn(o, b) \/ ~B!Dark(n) => v \in B!Asked(o, b)
  BY <1>4, <1>5, <1>7, <1>8, <1>9
<1>12. ~B!TurnsOn(o, b) /\ ~B!Dark(n) => b # 0
  BY <1>1, <1>2, <1>6
<1> QED BY <1>4, <1>10, <1>11, <1>12 DEF most, v

-----------------------------------------------------------------------------
(* Backlight: the screen and its brightness                                *)

Late == {"turn_on", "turn_off", "dump"}

BacklightTypes ==
    /\ raw \in [B!Devices -> Int] /\ new \in [Workers -> Int]
    /\ B!TypeOK
    /\ \A w \in Workers : /\ bPc[w] # "idle" => bOp[w] \in BacklightOps
                          /\ bPc[w] \in {"idle", "read"} => new[w] = 0

\* A call on its way to its write: unless another call disturbed it, it has
\* what is asked for, and the screen is lit if it was at 0 and is to be raised.
OnItsWay(w) ==
    /\ bPc[w] \in Late /\ ~bStale[w] =>
          new[w] \in B!Asked(bOp[w], raw[bOp[w].device])
    /\ bPc[w] = "turn_on" => bOp[w].device = "screen"
    /\ bPc[w] = "turn_off" => bOp[w].device = "screen" /\ new[w] = 0
    /\ /\ bPc[w] = "dump" /\ ~bStale[w] /\ bOp[w].device = "screen"
       /\ raw["screen"] = 0 /\ new[w] # 0
       => lit

BacklightInv == /\ BacklightTypes
                /\ \A w \in Workers : OnItsWay(w)
                /\ B!DarkMeansZero

LEMMA BacklightInit == B!Init => BacklightInv
<1> SUFFICES ASSUME B!Init PROVE BacklightInv
  OBVIOUS
<1>1. /\ raw \in [B!Devices -> {1}] /\ lit = TRUE /\ bCalls = 0
      /\ \A w \in Workers : bPc[w] = "idle" /\ bOp[w] = NoOp /\ new[w] = 0
  BY DEF B!Init
<1>2. \A d \in B!Devices : raw[d] \in 0..BrightnessMax[d]
  BY <1>1, BrightnessMaxOK DEF B!Devices
<1>3. B!TypeOK
  <2>1. /\ bPc \in [Workers -> {"idle", "read", "turn_on", "turn_off", "dump"}]
        /\ bOp \in [Workers -> BacklightOps \cup {NoOp}]
        /\ bStale \in [Workers -> BOOLEAN]
    BY DEF B!Init
  <2>2. lit \in BOOLEAN /\ bDown \in BOOLEAN /\ raced \in BOOLEAN /\ missed \in BOOLEAN
    BY DEF B!Init
  <2>3. bCalls \in 0..MaxCalls
    BY <1>1, BoundOK
  <2> QED BY <1>1, <1>2, <2>1, <2>2, <2>3 DEF B!TypeOK
<1>4. raw \in [B!Devices -> Int] /\ new \in [Workers -> Int]
  BY <1>1 DEF B!Init
<1>5. BacklightTypes
  BY <1>1, <1>3, <1>4 DEF BacklightTypes
<1> QED BY <1>1, <1>5 DEF BacklightInv, OnItsWay, Late, B!DarkMeansZero

LEMMA ValuesNext ==
    \A w \in Workers : B!Asked(bOp[w], raw[bOp[w].device])'
                          = B!Asked(bOp'[w], raw'[bOp'[w].device])
BY DEF B!Asked, B!Error

\* Beginning a call changes no device.
LEMMA BeginKeeps ==
    ASSUME BacklightInv, NEW w \in Workers, NEW o \in BacklightOps, B!Begin(w, o)
    PROVE  BacklightInv'
<1>0. BacklightTypes /\ B!TypeOK /\ B!DarkMeansZero
      /\ \A v \in Workers : OnItsWay(v)
  BY DEF BacklightInv, BacklightTypes
<1>1. /\ bPc[w] = "idle" /\ bPc' = [bPc EXCEPT ![w] = "read"]
      /\ bOp' = [bOp EXCEPT ![w] = o] /\ bStale' = [bStale EXCEPT ![w] = FALSE]
      /\ bCalls < MaxCalls /\ bCalls' = bCalls + 1
      /\ UNCHANGED <<raw, lit, new, bDown, raced, missed>>
  BY DEF B!Begin, B!Goto, B!files, B!environment
<1>2. /\ o # NoOp /\ 0 \in 0..BrightnessMax[o.device] /\ new[w] = 0
  BY <1>0, <1>1, Calls DEF BacklightTypes
<1>3. /\ bPc'[w] = "read" /\ bOp'[w] = o
      /\ \A v \in Workers \ {w} : /\ bPc'[v] = bPc[v] /\ bOp'[v] = bOp[v]
                                  /\ bStale'[v] = bStale[v]
  BY <1>0, <1>1 DEF B!TypeOK
<1>4. B!TypeOK'
  <2>1. /\ bPc' \in [Workers -> {"idle", "read", "turn_on", "turn_off", "dump"}]
        /\ bOp' \in [Workers -> BacklightOps \cup {NoOp}]
        /\ bStale' \in [Workers -> BOOLEAN]
    BY <1>0, <1>1 DEF B!TypeOK
  <2>2. bCalls' \in 0..MaxCalls
    BY <1>0, <1>1, BoundOK DEF B!TypeOK
  <2>3. \A v \in Workers :
           bOp'[v] # NoOp => new'[v] \in 0..BrightnessMax[bOp'[v].device]
    BY <1>0, <1>1, <1>2, <1>3 DEF B!TypeOK
  <2> QED BY <1>0, <1>1, <2>1, <2>2, <2>3 DEF B!TypeOK
<1>5. BacklightTypes'
  BY <1>0, <1>1, <1>2, <1>3, <1>4 DEF BacklightTypes
<1>6. ASSUME NEW v \in Workers PROVE OnItsWay(v)'
  BY <1>0, <1>1, <1>3, ValuesNext DEF OnItsWay, Late
<1>7. B!DarkMeansZero'
  BY <1>0, <1>1, <1>3 DEF B!DarkMeansZero
<1> QED BY <1>5, <1>6, <1>7 DEF BacklightInv

\* What a read leads to.
LEMMA ReadGives ==
    ASSUME BacklightInv, NEW w \in Workers, B!Read(w)
    PROVE  /\ bPc[w] = "read" /\ bOp[w] \in BacklightOps
           /\ \E l \in Late, x \in 0..BrightnessMax[bOp[w].device] :
                 /\ bPc' = [bPc EXCEPT ![w] = l] /\ new' = [new EXCEPT ![w] = x]
                 /\ x \in B!Asked(bOp[w], raw[bOp[w].device])
                 /\ l = "turn_on" => bOp[w].device = "screen"
                 /\ l = "turn_off" => bOp[w].device = "screen" /\ x = 0
                 /\ l = "dump" /\ bOp[w].device = "screen" => raw["screen"] # 0
<1>1. /\ bPc[w] = "read" /\ bOp[w] \in BacklightOps
      /\ raw[bOp[w].device] \in 0..BrightnessMax[bOp[w].device]
  <2>1. bPc[w] = "read" /\ bOp[w] \in BacklightOps
    BY DEF B!Read, BacklightInv, BacklightTypes
  <2>2. bOp[w].device \in B!Devices
    BY <2>1, Calls DEF B!Devices
  <2> QED BY <2>1, <2>2 DEF BacklightInv, BacklightTypes, B!TypeOK
<1>2. PICK o \in BacklightOps : o = bOp[w]
  BY <1>1
<1>3. PICK b \in 0..BrightnessMax[o.device] : b = raw[o.device]
  BY <1>1, <1>2
<1>4. CASE o.device = "keyboard"
  <2>1. B!Computes(w, "dump", B!Keyboard(o, b))
    BY <1>2, <1>3, <1>4 DEF B!Read
  <2>2. /\ B!Keyboard(o, b) \in B!Asked(o, b)
        /\ B!Keyboard(o, b) \in 0..BrightnessMax["keyboard"]
    BY <1>2, <1>3, <1>4, KeyboardIsAsked
  <2> QED BY <1>1, <1>2, <1>3, <1>4, <2>1, <2>2 DEF B!Computes, B!Goto, Late
<1>5. CASE o.device = "screen"
  <2>1. B!ChangeBrightness(w, b)
    BY <1>2, <1>3, <1>5 DEF B!Read
  <2>2. PICK n, m \in B!Float(o, b) :
           \/ B!TurnsOn(o, b) /\ B!Computes(w, "turn_on", m \div 1000)
           \/ ~B!TurnsOn(o, b) /\ B!Dark(n) /\ B!Computes(w, "turn_off", 0)
           \/ ~B!TurnsOn(o, b) /\ ~B!Dark(n) /\ B!Computes(w, "dump", m \div 1000)
    BY <1>2, <1>3, <2>1 DEF B!ChangeBrightness
  <2>3. /\ m \div 1000 \in 0..BrightnessMax["screen"]
        /\ 0 \in 0..BrightnessMax["screen"]
        /\ B!TurnsOn(o, b) => m \div 1000 \in B!Asked(o, b)
        /\ B!Dark(n) => 0 \in B!Asked(o, b)
        /\ ~B!TurnsOn(o, b) /\ ~B!Dark(n) => m \div 1000 \in B!Asked(o, b) /\ b # 0
    BY <1>2, <1>3, <1>5, ScreenIsAsked, Sums
  <2> QED BY <1>1, <1>2, <1>3, <1>5, <2>2, <2>3 DEF B!Computes, B!Goto, Late
<1> QED BY <1>2, <1>3, <1>4, <1>5, Calls

LEMMA ReadKeeps ==
    ASSUME BacklightInv, NEW w \in Workers, B!Read(w)
    PROVE  BacklightInv'
<1>0. BacklightTypes /\ B!TypeOK /\ B!DarkMeansZero
      /\ \A v \in Workers : OnItsWay(v)
  BY DEF BacklightInv, BacklightTypes
<1>1. PICK l \in Late, x \in 0..BrightnessMax[bOp[w].device] :
         /\ bPc' = [bPc EXCEPT ![w] = l] /\ new' = [new EXCEPT ![w] = x]
         /\ x \in B!Asked(bOp[w], raw[bOp[w].device])
         /\ l = "turn_on" => bOp[w].device = "screen"
         /\ l = "turn_off" => bOp[w].device = "screen" /\ x = 0
         /\ l = "dump" /\ bOp[w].device = "screen" => raw["screen"] # 0
  BY ReadGives
<1>2. /\ bPc[w] = "read" /\ bOp[w] \in BacklightOps
      /\ bStale' = [bStale EXCEPT ![w] = FALSE]
      /\ UNCHANGED <<raw, lit, bOp, bCalls, bDown, raced, missed>>
  BY ReadGives DEF B!Read, B!files, B!environment
<1>3. x \in Int
  BY <1>1, <1>2, Calls
<1>4. /\ bPc'[w] = l /\ new'[w] = x
      /\ \A v \in Workers \ {w} : /\ bPc'[v] = bPc[v] /\ new'[v] = new[v]
                                  /\ bStale'[v] = bStale[v]
  BY <1>0, <1>1, <1>2 DEF BacklightTypes, B!TypeOK
<1>5. B!TypeOK'
  <2>1. /\ bPc' \in [Workers -> {"idle", "read", "turn_on", "turn_off", "dump"}]
        /\ bStale' \in [Workers -> BOOLEAN]
    BY <1>0, <1>1, <1>2 DEF B!TypeOK, Late
  <2>2. \A v \in Workers :
           bOp'[v] # NoOp => new'[v] \in 0..BrightnessMax[bOp'[v].device]
    BY <1>0, <1>1, <1>2, <1>4 DEF B!TypeOK
  <2> QED BY <1>0, <1>2, <2>1, <2>2 DEF B!TypeOK
<1>6. BacklightTypes'
  <2>1. new' \in [Workers -> Int]
    BY <1>0, <1>1, <1>3 DEF BacklightTypes
  <2> QED BY <1>0, <1>2, <1>4, <1>5, <2>1 DEF BacklightTypes, Late
<1>7. ASSUME NEW v \in Workers PROVE OnItsWay(v)'
  <2>1. CASE v = w
    BY <1>1, <1>2, <1>4, <2>1, ValuesNext DEF OnItsWay
  <2>2. CASE v # w
    BY <1>0, <1>2, <1>4, <2>2, ValuesNext DEF OnItsWay
  <2> QED BY <2>1, <2>2
<1>8. B!DarkMeansZero'
  BY <1>0, <1>2, <1>4 DEF B!DarkMeansZero
<1> QED BY <1>6, <1>7, <1>8 DEF BacklightInv

\* The daemon ends.
LEMMA CrashKeeps ==
    ASSUME BacklightInv, NEW w \in Workers,
           B!ReadCrashes(w) \/ B!NoDisplay(w) \/ B!DumpCrashes(w)
    PROVE  BacklightInv'
<1>0. BacklightTypes /\ \A v \in Workers : OnItsWay(v)
  BY DEF BacklightInv
<1>1. /\ UNCHANGED <<raw, lit, bPc, bOp, new, bCalls, bStale, raced, missed>>
      /\ bDown' = TRUE
  BY DEF B!ReadCrashes, B!NoDisplay, B!DumpCrashes, B!files, B!worker, B!history
<1>2. BacklightTypes'
  BY <1>0, <1>1 DEF BacklightTypes, B!TypeOK
<1>3. ASSUME NEW v \in Workers PROVE OnItsWay(v)'
  BY <1>0, <1>1, ValuesNext DEF OnItsWay
<1> QED BY <1>1, <1>2, <1>3 DEF BacklightInv, B!DarkMeansZero

\* A call that ends without a change: as there is no DPMS, or as its write fails.
\* The write of a dark screen's 0 that fails is missed.
LEMMA GivesUpKeeps ==
    ASSUME BacklightInv, NEW w \in Workers, B!NoDPMS(w) \/ B!DumpFails(w)
    PROVE  BacklightInv'
<1>0. BacklightTypes /\ B!TypeOK /\ B!DarkMeansZero
      /\ \A v \in Workers : OnItsWay(v)
  BY DEF BacklightInv, BacklightTypes
<1>1. /\ bPc[w] \in Late /\ bPc' = [bPc EXCEPT ![w] = "idle"]
      /\ bOp' = [bOp EXCEPT ![w] = NoOp] /\ new' = [new EXCEPT ![w] = 0]
      /\ UNCHANGED <<raw, lit, bCalls, bDown, bStale, raced>>
  BY DEF B!NoDPMS, B!DumpFails, B!Goto, B!Forget, B!files, B!environment,
         B!history, Late
<1>2. missed => missed'
  BY DEF B!NoDPMS, B!DumpFails, B!history
<1>3. bPc[w] = "dump" /\ bOp[w].device = "screen" /\ new[w] = 0 /\ ~lit => missed'
  BY DEF B!NoDPMS, B!DumpFails, B!Goto
<1>4. missed' \in BOOLEAN
  BY <1>0 DEF B!NoDPMS, B!DumpFails, B!history, B!TypeOK
<1>5. /\ bPc'[w] = "idle" /\ bOp'[w] = NoOp /\ new'[w] = 0
      /\ \A v \in Workers \ {w} : /\ bPc'[v] = bPc[v] /\ bOp'[v] = bOp[v]
                                  /\ new'[v] = new[v]
  BY <1>0, <1>1 DEF BacklightTypes, B!TypeOK
<1>6. B!TypeOK'
  <2>1. /\ bPc' \in [Workers -> {"idle", "read", "turn_on", "turn_off", "dump"}]
        /\ bOp' \in [Workers -> BacklightOps \cup {NoOp}]
    BY <1>0, <1>1 DEF B!TypeOK
  <2>2. \A v \in Workers :
           bOp'[v] # NoOp => new'[v] \in 0..BrightnessMax[bOp'[v].device]
    BY <1>0, <1>5 DEF B!TypeOK
  <2> QED BY <1>0, <1>1, <1>4, <2>1, <2>2 DEF B!TypeOK
<1>7. BacklightTypes'
  <2>1. new' \in [Workers -> Int]
    BY <1>0, <1>1 DEF BacklightTypes
  <2> QED BY <1>0, <1>1, <1>5, <1>6, <2>1 DEF BacklightTypes
<1>8. ASSUME NEW v \in Workers PROVE OnItsWay(v)'
  BY <1>0, <1>1, <1>5, ValuesNext DEF OnItsWay, Late
<1>9. B!DarkMeansZero'
  BY <1>0, <1>1, <1>2, <1>3, <1>5 DEF B!DarkMeansZero
<1> QED BY <1>7, <1>8, <1>9 DEF BacklightInv

\* The screen is switched, and what others have read of it is stale.
LEMMA SetScreenPowerKeeps ==
    ASSUME BacklightInv, NEW w \in Workers, B!SetScreenPower(w)
    PROVE  BacklightInv'
<1>0. BacklightTypes /\ B!TypeOK /\ B!DarkMeansZero
      /\ \A v \in Workers : OnItsWay(v)
  BY DEF BacklightInv, BacklightTypes
<1>1. /\ bPc[w] \in {"turn_on", "turn_off"} /\ bPc' = [bPc EXCEPT ![w] = "dump"]
      /\ lit' = (bPc[w] = "turn_on") /\ missed' = FALSE
      /\ B!Change(w)
      /\ UNCHANGED <<raw, bOp, new, bCalls, bDown>>
  BY DEF B!SetScreenPower, B!Goto, B!environment
<1>2. /\ bPc'[w] = "dump" /\ \A v \in Workers \ {w} : bPc'[v] = bPc[v]
      /\ bOp[w].device = "screen" /\ bOp[w] \in BacklightOps
  BY <1>0, <1>1 DEF B!TypeOK, BacklightTypes, OnItsWay
<1>3. /\ bStale' \in [Workers -> BOOLEAN] /\ bStale'[w] = bStale[w]
      /\ \A v \in Workers \ {w} :
            bStale'[v] <=> bStale[v] \/ (bPc[v] \notin {"idle", "read"}
                                         /\ bOp[v].device = "screen")
      /\ raced' <=> raced \/ bStale[w]
      /\ raced' \in BOOLEAN
  BY <1>0, <1>1, <1>2 DEF B!Change, B!TypeOK
<1>4. B!TypeOK'
  <2>1. /\ bPc' \in [Workers -> {"idle", "read", "turn_on", "turn_off", "dump"}]
    BY <1>0, <1>1 DEF B!TypeOK
  <2>2. lit' \in BOOLEAN /\ missed' \in BOOLEAN
    BY <1>1
  <2> QED BY <1>0, <1>1, <1>3, <2>1, <2>2 DEF B!TypeOK
<1>5. BacklightTypes'
  BY <1>0, <1>1, <1>2, <1>4 DEF BacklightTypes
<1>6. ASSUME NEW v \in Workers PROVE OnItsWay(v)'
  <2>1. CASE v = w
    <3>1. lit' \/ new[w] = 0
      BY <1>0, <1>1 DEF OnItsWay
    <3> QED BY <1>0, <1>1, <1>2, <1>3, <2>1, <3>1, ValuesNext DEF OnItsWay, Late
  <2>2. CASE v # w
    BY <1>0, <1>1, <1>2, <1>3, <2>2, ValuesNext DEF OnItsWay, Late
  <2> QED BY <2>1, <2>2
<1>7. B!DarkMeansZero'
  <2>1. CASE bPc[w] = "turn_on"
    BY <1>1, <2>1 DEF B!DarkMeansZero
  <2>2. CASE bPc[w] = "turn_off"
    BY <1>0, <1>1, <1>2, <2>2 DEF B!DarkMeansZero, OnItsWay
  <2> QED BY <1>1, <2>1, <2>2
<1> QED BY <1>5, <1>6, <1>7 DEF BacklightInv

LEMMA DumpKeeps ==
    ASSUME BacklightInv, NEW w \in Workers, B!Dump(w)
    PROVE  BacklightInv'
<1>0. BacklightTypes /\ B!TypeOK /\ B!DarkMeansZero
      /\ \A v \in Workers : OnItsWay(v)
  BY DEF BacklightInv, BacklightTypes
<1>1. PICK o \in BacklightOps : o = bOp[w] /\ o.device \in B!Devices
  BY <1>0, Calls DEF B!Dump, B!Goto, BacklightTypes, B!Devices
<1>2. PICK n \in 0..BrightnessMax[o.device] : n = new[w]
  BY <1>0, <1>1, Calls DEF B!TypeOK
<1>3. /\ bPc[w] = "dump" /\ bPc' = [bPc EXCEPT ![w] = "idle"]
      /\ bOp' = [bOp EXCEPT ![w] = NoOp] /\ new' = [new EXCEPT ![w] = 0]
      /\ raw' = [raw EXCEPT ![o.device] = n]
      /\ B!Change(w)
      /\ UNCHANGED <<lit, bCalls, bDown, missed>>
  BY <1>1, <1>2 DEF B!Dump, B!Goto, B!Forget, B!environment
<1>4. /\ bPc'[w] = "idle" /\ bOp'[w] = NoOp /\ new'[w] = 0 /\ raw'[o.device] = n
      /\ \A v \in Workers \ {w} : /\ bPc'[v] = bPc[v] /\ bOp'[v] = bOp[v]
                                  /\ new'[v] = new[v]
      /\ \A d \in B!Devices \ {o.device} : raw'[d] = raw[d]
  BY <1>0, <1>1, <1>3 DEF BacklightTypes, B!TypeOK
<1>5. /\ bStale' \in [Workers -> BOOLEAN]
      /\ \A v \in Workers \ {w} :
            bStale'[v] <=> bStale[v] \/ (bPc[v] \notin {"idle", "read"}
                                         /\ bOp[v].device = o.device)
      /\ raced' <=> raced \/ bStale[w]
      /\ raced' \in BOOLEAN
  BY <1>0, <1>1, <1>3 DEF B!Change, B!TypeOK
<1>6. B!TypeOK'
  <2>1. /\ bPc' \in [Workers -> {"idle", "read", "turn_on", "turn_off", "dump"}]
        /\ bOp' \in [Workers -> BacklightOps \cup {NoOp}]
    BY <1>0, <1>3 DEF B!TypeOK
  <2>2. \A d \in B!Devices : raw'[d] \in 0..BrightnessMax[d]
    BY <1>0, <1>2, <1>4 DEF B!TypeOK
  <2>3. \A v \in Workers :
           bOp'[v] # NoOp => new'[v] \in 0..BrightnessMax[bOp'[v].device]
    BY <1>0, <1>4 DEF B!TypeOK
  <2> QED BY <1>0, <1>3, <1>5, <2>1, <2>2, <2>3 DEF B!TypeOK
<1>7. BacklightTypes'
  <2>1. new' \in [Workers -> Int]
    BY <1>0, <1>3 DEF BacklightTypes
  <2>2. n \in Int
    BY <1>1, <1>2, BrightnessMaxOK DEF B!Devices
  <2>3. raw' \in [B!Devices -> Int]
    BY <1>0, <1>3, <2>2 DEF BacklightTypes
  <2> QED BY <1>0, <1>3, <1>4, <1>6, <2>1, <2>3 DEF BacklightTypes
<1>8. ASSUME NEW v \in Workers PROVE OnItsWay(v)'
  <2>1. CASE v = w
    BY <1>4, <2>1 DEF OnItsWay, Late
  <2>2. CASE v # w
    <3>1. bPc[v] # "idle" => bOp[v].device \in B!Devices
      BY <1>0, Calls DEF BacklightTypes, B!Devices
    <3> QED
      BY <1>0, <1>3, <1>4, <1>5, <2>2, <3>1, ValuesNext
         DEF OnItsWay, Late, B!Devices
  <2> QED BY <2>1, <2>2
<1>9. B!DarkMeansZero'
  <2> SUFFICES ASSUME ~lit, ~raced', ~bDown, ~missed, raw'["screen"] # 0
               PROVE  \E v \in Workers : /\ bPc'[v] = "dump"
                                         /\ bOp'[v].device = "screen"
                                         /\ new'[v] = 0
    BY <1>3 DEF B!DarkMeansZero
  <2>1. ~raced /\ ~bStale[w]
    BY <1>5
  <2>2. raw["screen"] = 0 => o.device = "screen" /\ n # 0
    BY <1>1, <1>4 DEF B!Devices
  <2>3. raw["screen"] # 0
    BY <1>0, <1>1, <1>2, <1>3, <2>1, <2>2 DEF OnItsWay
  <2>4. PICK v \in Workers : /\ bPc[v] = "dump" /\ bOp[v].device = "screen"
                             /\ new[v] = 0
    BY <1>0, <2>1, <2>3 DEF B!DarkMeansZero
  <2>5. v # w
    BY <1>1, <1>2, <1>4, <2>4
  <2> QED BY <1>4, <2>4, <2>5
<1> QED BY <1>7, <1>8, <1>9 DEF BacklightInv

LEMMA BacklightStep ==
    ASSUME BacklightInv, B!Next \/ UNCHANGED backlight
    PROVE  BacklightInv'
<1>1. CASE UNCHANGED backlight
  <2>1. UNCHANGED <<raw, lit, bPc, bOp, new, bCalls, bDown, bStale, raced, missed>>
    BY <1>1 DEF backlight
  <2>2. BacklightTypes' /\ \A w \in Workers : OnItsWay(w)'
    BY <2>1, ValuesNext DEF BacklightInv, BacklightTypes, B!TypeOK, OnItsWay
  <2>3. B!DarkMeansZero'
    BY <2>1 DEF BacklightInv, B!DarkMeansZero
  <2> QED BY <2>2, <2>3 DEF BacklightInv
<1>2. CASE B!Next
  BY <1>2, BeginKeeps, ReadKeeps, CrashKeeps, GivesUpKeeps, SetScreenPowerKeeps,
     DumpKeeps DEF B!Next
<1> QED BY <1>1, <1>2

\* The write of a call which nobody disturbed leaves what was asked for.
Exact(w) ==
    B!Dump(w) /\ ~bStale[w] =>
       raw'[bOp[w].device] \in B!Asked(bOp[w], raw[bOp[w].device])

LEMMA WritesAreExact ==
    ASSUME BacklightInv, NEW w \in Workers
    PROVE  Exact(w)
<1> SUFFICES ASSUME B!Dump(w), ~bStale[w]
             PROVE  raw'[bOp[w].device] \in B!Asked(bOp[w], raw[bOp[w].device])
  BY DEF Exact
<1>1. /\ raw \in [B!Devices -> Int] /\ OnItsWay(w) /\ bPc[w] = "dump"
      /\ bOp[w].device \in B!Devices
  BY Calls DEF BacklightInv, BacklightTypes, B!Dump, B!Goto, B!Devices
<1>2. raw'[bOp[w].device] = new[w]
  BY <1>1 DEF B!Dump
<1> QED BY <1>1, <1>2 DEF OnItsWay, Late

-----------------------------------------------------------------------------
(* The whole                                                               *)

IInv == BacklightInv /\ VolumeInv /\ MusicInv

LEMMA InitInvariant == Init => IInv
BY BacklightInit, VolumeInit, MusicInit DEF Init, IInv

\* A step is a step of one of the three, and leaves the others alone.
LEMMA Parts ==
    ASSUME [Next]_vars
    PROVE  /\ B!Next \/ UNCHANGED backlight
           /\ V!Next \/ UNCHANGED sound
           /\ M!Next \/ UNCHANGED music
BY DEF Next, vars

LEMMA StepInvariant == IInv /\ [Next]_vars => IInv'
BY Parts, BacklightStep, VolumeStep, MusicStep DEF IInv

\* The inductive invariant holds for any number of workers and any commands.
THEOREM InvariantHolds == Safety => []IInv
<1> QED BY InitInvariant, StepInvariant, PTL DEF Safety

\* A screen is off at brightness 0 only, unless calls overlapped, the write of the
\* 0 failed or the daemon ended; and no call writes a brightness out of range
\* (display.cpp:46-72).
THEOREM DarkIsZero == Safety => []DarkMeansZero
<1>1. IInv => DarkMeansZero
  BY DEF IInv, BacklightInv, BacklightTypes, DarkMeansZero
<1> QED BY <1>1, InvariantHolds, PTL

\* No volume above 200 per cent whatever has been read, and no crash without a
\* fault (pulse.cpp:82, 118-145, 205).
THEOREM VolumeStaysBounded == Safety => []VolumeBounded
<1>1. IInv => VolumeBounded
  BY DEF IInv, VolumeInv, VolumeTypes, VolumeBounded, V!VolumeBounded, V!Most
<1> QED BY <1>1, InvariantHolds, PTL

\* A method is executed at most once however often it is tried, and success is
\* told truly (music.cpp:34, 56-75).
THEOREM PlaysOnce == Safety => []PlayedOnce
<1>1. IInv => PlayedOnce
  BY DEF IInv, MusicInv, PlayedOnce
<1> QED BY <1>1, InvariantHolds, PTL

\* A call that writes changes a brightness as asked, within the error of float,
\* unless the device was changed between its read and its write
\* (display.cpp:48-64, 107-124).
THEOREM OnlyOverlapLoses == Safety => LostOnlyByOverlap
<1>1. IInv /\ [Next]_vars =>
         [\A w \in Workers :
             B!Dump(w) /\ ~bStale[w] =>
                raw'[bOp[w].device] \in B!Asked(bOp[w], raw[bOp[w].device])]_(B!vars)
  BY WritesAreExact DEF IInv, Exact
<1> QED BY <1>1, InvariantHolds, PTL DEF Safety, LostOnlyByOverlap,
           B!LostOnlyByOverlap

\* A call that met no fault did what it answers (pulse.cpp:192-216).
THEOREM TellsTheTruth == Safety => ToldIsTrue
<1>1. IInv /\ [Next]_vars =>
         [\A w \in Workers :
             vPc[w] \in {"volume", "mute"} /\ vPc'[w] = "idle" /\ w \notin fault
             /\ plugged =>
                IF vOp[w].name = "mute"
                THEN /\ muted' = told'.muted
                     /\ w \in vStale \/ muted' = ~muted
                ELSE /\ volume' = told'.volume
                     /\ \/ vOp[w].name = "set" \/ w \in vStale
                        \/ volume' = V!Clamp(volume + vOp[w].val)]_(V!vars)
  BY Parts, AnswersAreTrue DEF IInv, Told
<1> QED BY <1>1, InvariantHolds, PTL DEF Safety, ToldIsTrue, V!ToldIsTrue
=============================================================================
