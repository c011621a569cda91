------------------------------- MODULE PinBank -------------------------------
(***************************************************************************)
(* What the I/O expander driver promises its callers: every pin of every   *)
(* chip has an output level and a direction of its own, and a call changes *)
(* that one pin and nothing else, at one instant.                          *)
(***************************************************************************)
CONSTANTS Chips, Pins
VARIABLES high,   \* high[d]: pins of chip d whose output level is high
          inputs  \* inputs[d]: pins of chip d that are inputs

Init == high \in [Chips -> {{}}] /\ inputs \in [Chips -> {Pins}]

(* rt_device_write(dev, PIN_HIGH or PIN_LOW, pin, 0) *)
Write(d, p) ==
  /\ \/ high' = [high EXCEPT ![d] = @ \cup {p}]
     \/ high' = [high EXCEPT ![d] = @ \ {p}]
  /\ UNCHANGED inputs

(* rt_device_control(dev, INPUT or OUTPUT, pin) *)
Control(d, p) ==
  /\ \/ inputs' = [inputs EXCEPT ![d] = @ \cup {p}]
     \/ inputs' = [inputs EXCEPT ![d] = @ \ {p}]
  /\ UNCHANGED high

Next == \E d \in Chips, p \in Pins : Write(d, p) \/ Control(d, p)

Spec == Init /\ [][Next]_<<high, inputs>>
=============================================================================
