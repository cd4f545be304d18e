---------------------------- MODULE BsReceivers -----------------------------
(***************************************************************************)
(* The base station on the air (BSEngine): its transmit thread with the    *)
(* receivers that follow it, a monostatic sensing channel and the uplink   *)
(* receiver.  A configuration has either or both.                          *)
(***************************************************************************)
EXTENDS SensingRx, UplinkRx

CONSTANTS
  Configurations,  \* which receivers there may be
  Losses,          \* numbers of samples a receive stream may lose at a time
  Lag              \* bound of the model on how far each falls behind, in slots

ASSUME ReceiversAssumption ==
  /\ Configurations \subseteq SUBSET {"sensing", "uplink"}
  /\ Losses \subseteq Nat /\ Lag \in [{"sensing", "uplink"} -> Nat]

VARIABLE present   \* the receivers of this station

vars == <<txVars, senseVars, ulVars, present>>

Init ==
  /\ TxInit /\ SensingInit /\ UlInit
  /\ present \in Configurations

\* The transmit thread tells the uplink receiver first and then the channel, and
\* each of them step by step.
To(pc) ==
  /\ txpc' = pc
  /\ after' = IF pc = after THEN "loop" ELSE after
  /\ UNCHANGED <<now, nextTicks, nextSeq, underflow, troubles, present>>

TellUplink ==
  \/ txpc = "uplink" /\ "uplink" \in present /\ UlPending /\ To("uplinkFlag")
  \/ txpc = "uplinkFlag" /\ UlFlag /\ To("sensing")

TellSensing ==
  \/ txpc = "sensing" /\ SenseNewGeneration /\ To("sensingPending")
  \/ txpc = "sensingPending" /\ SensePending /\ To("sensingFlag")
  \/ txpc = "sensingFlag" /\ SenseFlag /\ To(after)

Absent ==
  \/ txpc = "uplink" /\ "uplink" \notin present /\ To("sensing")
  \/ txpc = "sensing" /\ "sensing" \notin present /\ To(after)

Tell ==
  \/ TellUplink /\ UNCHANGED senseVars
  \/ "sensing" \in present /\ TellSensing /\ UNCHANGED ulVars
  \/ Absent /\ UNCHANGED <<senseVars, ulVars>>

\* Only a whole modulated frame is given to the channel.
Send ==
  /\ \E sent \in {"frame", "blank", "short"} :
       /\ TxSend(sent)
       /\ IF sent = "frame" /\ "sensing" \in present
          THEN EnqueueTxSymbols ELSE UNCHANGED senseVars
  /\ UNCHANGED <<ulVars, present>>

Transmit ==
  \/ Tell
  \/ Send
  \/ /\ \E reason \in Reasons : RestartBurst(reason)
     /\ UNCHANGED <<senseVars, ulVars, present>>

InStep ==
  /\ "sensing" \in present => srx.pos >= (now - Lag["sensing"]) * FrameLen
  /\ "uplink" \in present => ul.pos >= (now - Lag["uplink"]) * FrameLen

Radio ==
  /\ InStep
  /\ Tick
  /\ UNCHANGED <<senseVars, ulVars, present>>

Lose ==
  /\ Trouble
  /\ \E n \in Losses :
       \/ "sensing" \in present /\ RxLost(n) /\ UNCHANGED ulVars
       \/ "uplink" \in present /\ UlLost(n) /\ UNCHANGED senseVars
  /\ UNCHANGED <<now, nextTicks, nextSeq, underflow, txpc, after, present>>

Operator ==
  /\ Trouble
  /\ \/ "sensing" \in present /\ (\E n \in Targets : SetTarget(n)) /\ UNCHANGED ulVars
     \/ "uplink" \in present /\ (\E n \in Distances : SetDistance(n)) /\ UNCHANGED senseVars
  /\ UNCHANGED <<now, nextTicks, nextSeq, underflow, txpc, after, present>>

Channel ==
  /\ "sensing" \in present
  /\ Receive \/ Sense
  /\ UNCHANGED <<txVars, ulVars, present>>

Uplink ==
  /\ "uplink" \in present
  /\ ReceiveUplink
  /\ UNCHANGED <<txVars, senseVars, present>>

Next == Transmit \/ Radio \/ Lose \/ Operator \/ Channel \/ Uplink

Spec == Init /\ [][Next]_vars
=============================================================================
