------------------------------- MODULE MCISHW -------------------------------
(***************************************************************************)
(* ISHW for TLC: boards of three slots, an interconnect device (vendor 5)  *)
(* and serial ports and timers (vendor 8).                                 *)
(***************************************************************************)
EXTENDS ISHW, TLC

Interconnect == [vendor |-> 5, product |-> 1]
Uart == [vendor |-> 8, product |-> 17]
TimerDevice == [vendor |-> 8, product |-> 19]

Board(a, b, c) == (0 :> a) @@ (1 :> b) @@ (2 :> c)

MCBoards ==
  {Board(Uart, Interconnect, Uart), Board(Interconnect, Interconnect, Empty),
   Board(Uart, TimerDevice, Empty)}

Ask(type, n) == [vendor |-> type.vendor, product |-> type.product, instance |-> n]

\* The sketch, another driver of the same device, and two of one serial port.
MCAsked ==
  ("ishw" :> Ask(Interconnect, 1)) @@ ("serial" :> Ask(Uart, 1))
    @@ ("debug" :> Ask(Uart, 1)) @@ ("other" :> Ask(Interconnect, 1))

\* The sketch, a driver of the default instance, and one of any product.
MCAskedAny ==
  ("ishw" :> Ask(Interconnect, 1)) @@ ("serial" :> Ask(Uart, FIRST_INSTANCE))
    @@ ("any" :> [vendor |-> 8, product |-> PRODUCT_ANY, instance |-> 1])
=============================================================================
