--------------------------------- MODULE Dma ---------------------------------
(***************************************************************************)
(* Channels of the DMA driver, drivers/dma/socfpga_dma.c, opened and       *)
(* configured: what its users set up, start and complete.  I2c composes it *)
(* with the I2C driver.  The blocks of a linked list are one transfer of   *)
(* todo items; addresses, widths and bursts are left out.                  *)
(***************************************************************************)
EXTENDS Naturals

CONSTANTS Channels, MaxItems

ASSUME DmaAssumption == MaxItems \in Nat \ {0}

VARIABLE channel  \* state: channel_state; todo: the items the engine has not
                  \* moved; done: DMA_CH_INTSTATUS.TFR_DONE

IdleChannel == [state |-> "IDLE", todo |-> 0, done |-> FALSE]

DmaTypeOK ==
  channel \in [Channels -> [state : {"IDLE", "ACTIVE"}, todo : 0 .. MaxItems,
                            done : BOOLEAN]]

DmaInit == channel = [ch \in Channels |-> IdleChannel]

(* dma_setup_transfer and dma_start_transfer refuse an active channel.     *)
dma_setup_ok(chs) == \A ch \in chs : channel[ch].state = "IDLE"
dma_start_transfer(chs, n) ==
  channel' = [ch \in Channels |-> IF ch \in chs
                THEN [channel[ch] EXCEPT !.state = "ACTIVE", !.todo = n]
                ELSE channel[ch]]

(* dma_stop_transfer, of the channels among chs that are active.  It leaves *)
(* the interrupt of a transfer that has ended where it is.                 *)
dma_stop_transfer(chs) ==
  channel' = [ch \in Channels |->
    IF ch \in chs /\ channel[ch].state = "ACTIVE"
    THEN [channel[ch] EXCEPT !.state = "IDLE", !.todo = 0] ELSE channel[ch]]

(* pdma_irq_handler, without the call of callback_fn.                      *)
pdma_irq_handler_StaysActive(ch) ==  \* mutant: channel_state is not reset
  channel[ch].done /\ channel' = [channel EXCEPT ![ch].done = FALSE]
pdma_irq_handler(ch) ==
  /\ channel[ch].done
  /\ channel' = [channel EXCEPT ![ch].done = FALSE, ![ch].state = "IDLE"]

(* The engine moves an item; with the last one it raises its interrupt.    *)
EngineMove(ch) ==
  /\ channel[ch].todo > 0
  /\ channel' = [channel EXCEPT ![ch].todo = @ - 1,
                                ![ch].done = channel[ch].todo = 1]
=============================================================================
