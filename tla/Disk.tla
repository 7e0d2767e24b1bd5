-------------------------------- MODULE Disk --------------------------------
(***************************************************************************)
(* The ATA driver of disk.c: one channel with its two devices, the threads *)
(* that call disk_read and disk_write, the interrupt handler, and before   *)
(* them disk_init, which finds out what the devices are.                   *)
(*                                                                         *)
(* The devices are external, as the driver uses them: a command makes one  *)
(* busy; a read ends with data to take (DRQ) and an interrupt; a write     *)
(* first asks for the data (DRQ, no interrupt), is busy again when it has  *)
(* them, and ends with an interrupt; a command may fail before data move.  *)
(* Reading the status register withdraws the interrupt.  Two channels      *)
(* share nothing.                                                          *)
(***************************************************************************)
EXTENDS Integers

CONSTANTS Thread, Sector, Value, Zero, NULL,
          BOOT   \* the thread that runs disk_init

ASSUME DiskAssumption ==
  /\ Zero \in Value /\ BOOT \notin Thread
  /\ NULL \notin Thread /\ NULL \notin Sector /\ NULL \notin Value /\ NULL \notin 0..2

Device == {0, 1}
(* What a device shows after reset: its error register, whether it is ready *)
(* (DRDY and not BSY) and whether its signature is that of an ATA disk.     *)
Signature == [error : {"1", "81"}, ready : BOOLEAN, ata : BOOLEAN]
Caller == Thread \cup {BOOT}

VARIABLES lock, expecting_interrupt, completion_wait,   \* struct channel
          is_ata,                                       \* struct disk
          pc, call, buffer,        \* of a caller: where it is, its arguments, its buffer
          selected, lba, data,     \* the channel's registers: device, sector, data
          status, intrq, store,    \* of the devices: what each does, interrupt, sectors
          signature, panic

driver == <<lock, expecting_interrupt, completion_wait, is_ata>>
device == <<selected, lba, data, status, intrq, store>>
vars == <<driver, device, pc, call, buffer, signature, panic>>

NoCall == [op |-> "none", disk |-> NULL, sector |-> NULL, value |-> NULL]

(* disk_init up to reset_channel *)
Init ==
  /\ lock = NULL /\ expecting_interrupt = FALSE /\ completion_wait = 0
  /\ is_ata = [d \in Device |-> FALSE]
  /\ pc = [t \in Caller |-> IF t = BOOT THEN "check" ELSE "booting"]
  /\ call = [t \in Caller |-> NoCall]
  /\ buffer = [t \in Caller |-> Zero]
  /\ selected = 0 /\ lba = NULL /\ data = NULL
  /\ status = [d \in Device |-> "idle"] /\ intrq = FALSE
  /\ store = [x \in Device \X Sector |-> Zero]
  /\ signature \in [Device -> Signature]
  /\ panic = FALSE

Busy(d) == status[d] \in {"reading", "preparing", "writing"}
DRQ(d) == status[d] \in {"read", "prepared"}

----------------------------------------------------------------------------
(* check_device_type: whether D is a disk, and for device 0 whether there  *)
(* may be another.                                                         *)
Answers(d) == (signature[d].error = "1" \/ d = 0) /\ signature[d].ready
check_device_type(d) == Answers(d) /\ signature[d].ata
MaybeSlave == Answers(0) \/ signature[0].error # "81"

CheckDevices ==
  /\ pc[BOOT] = "check"
  /\ is_ata' = [d \in Device |-> check_device_type(d) /\ (d = 1 => MaybeSlave)]
  /\ pc' = [pc EXCEPT ![BOOT] = "identify"]
  /\ call' = [call EXCEPT ![BOOT] = [NoCall EXCEPT !.disk = 0]]
  /\ selected' = IF MaybeSlave THEN 1 ELSE 0
  /\ signature' = NULL   \* the registers have other uses now
  /\ UNCHANGED <<lock, expecting_interrupt, completion_wait, lba, status, data, intrq, store, buffer, panic>>

(* The loop of disk_init over the devices, and its end *)
Identify ==
  /\ pc[BOOT] = "identify"
  /\ LET d == call[BOOT].disk IN
     IF d \notin Device
     THEN pc' = [t \in Caller |-> "idle"] /\ call' = [call EXCEPT ![BOOT] = NoCall]
     ELSE IF is_ata[d]
          THEN pc' = [pc EXCEPT ![BOOT] = "select"] /\ call' = [call EXCEPT ![BOOT].op = "identify"]
          ELSE pc' = pc /\ call' = [call EXCEPT ![BOOT].disk = d + 1]
  /\ UNCHANGED <<driver, device, buffer, signature, panic>>

----------------------------------------------------------------------------
(* disk_read and disk_write are called, for a disk that disk_get returns.  *)
Call(t, c) ==
  /\ pc[t] = "idle" /\ is_ata[c.disk]
  /\ call' = [call EXCEPT ![t] = c]
  /\ pc' = [pc EXCEPT ![t] = "lock"]
  /\ UNCHANGED <<driver, device, buffer, signature, panic>>

Acquire(t) ==
  /\ pc[t] = "lock" /\ lock = NULL
  /\ lock' = t
  /\ pc' = [pc EXCEPT ![t] = "select"]
  /\ UNCHANGED <<expecting_interrupt, completion_wait, is_ata, device, call, buffer, signature, panic>>

MasterReads(t) == IF call[t].op = "read" THEN 0 ELSE call[t].disk
select_device(t) == call[t].disk

(* select_sector: wait until the device that is selected is idle, select   *)
(* the call's, wait until that is idle, and set the sector.                *)
select_sector(t) ==
  /\ pc[t] = "select"
  /\ status[selected] = "idle" /\ status[select_device(t)] = "idle"
  /\ selected' = select_device(t) /\ lba' = call[t].sector /\ intrq' = FALSE
  /\ pc' = [pc EXCEPT ![t] = "command"]
  /\ UNCHANGED <<driver, status, data, store, call, buffer, signature, panic>>

(* issue_pio_command.  A read or IDENTIFY waits for the interrupt first, a  *)
(* write for the device to ask for the data.                               *)
NotExpecting == FALSE
Expecting == TRUE
issue_pio_command(t) ==
  /\ pc[t] = "command"
  /\ expecting_interrupt' = Expecting
  /\ status' = [status EXCEPT ![selected] = IF call[t].op = "write" THEN "preparing" ELSE "reading"]
  /\ pc' = [pc EXCEPT ![t] = IF call[t].op = "write" THEN "transfer" ELSE "down"]
  /\ UNCHANGED <<lock, completion_wait, is_ata, selected, lba, data, intrq, store, call, buffer, signature, panic>>

(* sema_down, after the command or, for a write, after the data *)
Downed == completion_wait - 1
sema_down(t) ==
  /\ pc[t] = "down" /\ completion_wait > 0
  /\ completion_wait' = Downed
  /\ pc' = [pc EXCEPT ![t] = IF call[t].op = "write" THEN "unlock" ELSE "transfer"]
  /\ UNCHANGED <<lock, expecting_interrupt, is_ata, device, call, buffer, signature, panic>>

(* wait_while_busy, and then the data: input_sector, output_sector.        *)
AfterOutput == "down"
Transfer(t) ==
  /\ pc[t] = "transfer" /\ ~Busy(selected)
  /\ IF DRQ(selected)
     THEN /\ IF call[t].op = "write"
             THEN /\ data' = call[t].value
                  /\ status' = [status EXCEPT ![selected] = "writing"]
                  /\ pc' = [pc EXCEPT ![t] = AfterOutput]
                  /\ UNCHANGED <<buffer, call>>
             ELSE /\ data' = NULL
                  /\ status' = [status EXCEPT ![selected] = "idle"]
                  /\ IF call[t].op = "read"
                     THEN /\ buffer' = [buffer EXCEPT ![t] = data]
                          /\ pc' = [pc EXCEPT ![t] = "unlock"] /\ UNCHANGED call
                     ELSE /\ pc' = [pc EXCEPT ![t] = "identify"]
                          /\ call' = [call EXCEPT ![t].disk = @ + 1] /\ UNCHANGED buffer
          /\ UNCHANGED <<is_ata, panic>>
     ELSE /\ IF call[t].op = "identify"
             THEN /\ is_ata' = [is_ata EXCEPT ![call[t].disk] = FALSE]
                  /\ pc' = [pc EXCEPT ![t] = "identify"]
                  /\ call' = [call EXCEPT ![t].disk = @ + 1] /\ UNCHANGED panic
             ELSE panic' = TRUE /\ UNCHANGED <<is_ata, pc, call>>
          /\ UNCHANGED <<data, status, buffer>>
  /\ UNCHANGED <<lock, expecting_interrupt, completion_wait, selected, lba, intrq, store, signature>>

(* wait_while_busy gives up after 30 seconds. *)
Timeout(t) ==
  /\ pc[t] = "transfer" /\ Busy(selected) /\ call[t].op # "identify"
  /\ panic' = TRUE
  /\ UNCHANGED <<driver, device, pc, call, buffer, signature>>

Release(t) ==
  /\ pc[t] = "unlock"
  /\ lock' = NULL
  /\ pc' = [pc EXCEPT ![t] = "idle"] /\ call' = [call EXCEPT ![t] = NoCall]
  /\ UNCHANGED <<expecting_interrupt, completion_wait, is_ata, device, buffer, signature, panic>>

(* interrupt_handler: acknowledge and wake the waiter, or only complain.   *)
Acknowledged == FALSE
interrupt_handler ==
  /\ intrq /\ expecting_interrupt
  /\ intrq' = Acknowledged
  /\ completion_wait' = completion_wait + 1
  /\ UNCHANGED <<lock, expecting_interrupt, is_ata, selected, lba, status, data, store, pc, call, buffer, signature, panic>>

----------------------------------------------------------------------------
(* The device goes on with its command: it has read the sector, asks for   *)
(* the data to write, or has written them.                                 *)
DeviceReads ==
  /\ status[selected] = "reading"
  /\ data' = IF lba = NULL THEN NULL ELSE store[<<selected, lba>>]
  /\ status' = [status EXCEPT ![selected] = "read"] /\ intrq' = TRUE /\ lba' = NULL
  /\ UNCHANGED <<driver, selected, store, pc, call, buffer, signature, panic>>

DeviceAsks ==
  /\ status[selected] = "preparing"
  /\ status' = [status EXCEPT ![selected] = "prepared"]
  /\ UNCHANGED <<driver, selected, lba, data, intrq, store, pc, call, buffer, signature, panic>>

DeviceWrites ==
  /\ status[selected] = "writing"
  /\ store' = [store EXCEPT ![<<selected, lba>>] = data]
  /\ status' = [status EXCEPT ![selected] = "idle"] /\ intrq' = TRUE /\ lba' = NULL /\ data' = NULL
  /\ UNCHANGED <<driver, selected, pc, call, buffer, signature, panic>>

DeviceStep == DeviceReads \/ DeviceAsks \/ DeviceWrites

DeviceFails ==
  /\ status[selected] \in {"reading", "preparing"}
  /\ status' = [status EXCEPT ![selected] = "idle"] /\ intrq' = TRUE /\ lba' = NULL
  /\ UNCHANGED <<driver, selected, data, store, pc, call, buffer, signature, panic>>

Calls == [op : {"read"}, disk : Device, sector : Sector, value : {NULL}]
           \cup [op : {"write"}, disk : Device, sector : Sector, value : Value]

CallerStep(t) ==
  \/ Acquire(t) \/ select_sector(t) \/ issue_pio_command(t) \/ sema_down(t)
  \/ Transfer(t) \/ Timeout(t) \/ Release(t)
BootStep == CheckDevices \/ Identify

Next ==
  /\ ~panic
  /\ \/ BootStep
     \/ \E t \in Thread, c \in Calls : Call(t, c)
     \/ \E t \in Caller : CallerStep(t)
     \/ interrupt_handler \/ DeviceStep \/ DeviceFails
Spec == Init /\ [][Next]_vars

(* Callers run, devices finish their commands, interrupts are served.      *)
FairSpec ==
  /\ Spec
  /\ WF_vars(~panic /\ BootStep)
  /\ \A t \in Caller : WF_vars(~panic /\ CallerStep(t))
  /\ WF_vars(~panic /\ interrupt_handler) /\ WF_vars(~panic /\ DeviceStep)

----------------------------------------------------------------------------
(* The state is as the code's types allow, and the semaphore counts at most *)
(* the one interrupt of a command.                                          *)
TypeOK ==
  /\ lock \in Thread \cup {NULL} /\ expecting_interrupt \in BOOLEAN /\ completion_wait \in {0, 1}
  /\ is_ata \in [Device -> BOOLEAN]
  /\ pc \in [Caller -> {"booting", "check", "identify", "idle", "lock", "select", "command", "down", "transfer", "unlock"}]
  /\ buffer \in [Caller -> Value]
  /\ selected \in Device /\ lba \in Sector \cup {NULL} /\ data \in Value \cup {NULL}
  /\ status \in [Device -> {"idle", "reading", "read", "preparing", "prepared", "writing"}]
  /\ intrq \in BOOLEAN /\ store \in [Device \X Sector -> Value]

(* disk.c: who has the channel to start a command finds both devices idle,  *)
(* no interrupt on its way and the semaphore at 0: nothing of the command   *)
(* before can be taken for the end of this one.  expecting_interrupt does   *)
(* not help with that: it is never reset.                                   *)
CleanStart ==
  \A t \in Caller : pc[t] = "select" =>
    /\ \A d \in Device : status[d] = "idle"
    /\ ~intrq /\ completion_wait = 0

(* disk_write: "Returns after the disk has acknowledged receiving the       *)
(* data": when it has waited, the sector holds what was to be written.      *)
WriteAcknowledged ==
  \A t \in Thread : pc[t] = "unlock" /\ call[t].op = "write" =>
    store[<<call[t].disk, call[t].sector>>] = call[t].value

(* disk_read returns what its sector of its disk holds, that is what was    *)
(* last written there: "external per-disk locking is unneeded".             *)
ReadCurrent ==
  \A t \in Thread : pc[t] = "unlock" /\ call[t].op = "read" =>
    buffer[t] = store[<<call[t].disk, call[t].sector>>]

(* A transfer moves the data of its own sector, whatever the other device   *)
(* and the other threads do: all of these.                                  *)
TransfersRight == TypeOK /\ CleanStart /\ WriteAcknowledged /\ ReadCurrent

(* Every call returns, unless the driver gives up and the kernel panics.    *)
CallsReturn ==
  <>[][\A t \in Thread : pc[t] = "idle" => pc'[t] = "idle"]_vars
    => []<>(panic \/ \A t \in Caller : pc[t] = "idle")
=============================================================================
