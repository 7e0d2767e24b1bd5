----------------------------- MODULE DiskProofs -----------------------------
(***************************************************************************)
(* For any threads, sectors and contents: every transfer of the ATA driver *)
(* moves the data of its own sector (TransfersRight).                      *)
(***************************************************************************)
EXTENDS Disk, TLAPS

USE SMTT(30), Zenon

(* A caller that has the channel, and one whose command the devices have. *)
Using == {"select", "command", "down", "transfer", "unlock"}
Commanding == {"command", "down", "transfer"}
Booting == {"check", "identify", "select", "command", "down", "transfer"}

(* The end of a command has not been reported; or it has, once: by an      *)
(* interrupt on its way or by one that the handler has passed on.          *)
NoSignal == ~intrq /\ completion_wait = 0
Signalled == completion_wait = IF intrq THEN 0 ELSE 1

(* While disk_init runs there are no other callers. *)
BootOK ==
  /\ pc[BOOT] \in Booting \cup {"idle"}
  /\ pc[BOOT] \in Booting => lock = NULL /\ \A t \in Thread : pc[t] = "booting"
  /\ pc[BOOT] = "idle" => \A t \in Thread : pc[t] \in Using \cup {"idle", "lock"}
  /\ pc[BOOT] = "check" => signature \in [Device -> Signature]

(* struct channel's lock is held by the one thread that uses the channel.  *)
LockOK == \A t \in Thread : pc[t] \in Using <=> lock = t

(* The arguments of the calls that are being served; disk_init counts the  *)
(* devices in them.                                                        *)
CallRecord == [op : {"none", "read", "write", "identify"}, disk : 0..2 \cup {NULL},
               sector : Sector \cup {NULL}, value : Value \cup {NULL}]

CallOK ==
  /\ call \in [Caller -> CallRecord]
  /\ \A t \in Thread : pc[t] \in Using \cup {"lock"} => call[t] \in Calls
  /\ call[BOOT].sector = NULL /\ call[BOOT].op \notin {"read", "write"}
  /\ pc[BOOT] = "identify" => call[BOOT].disk \in 0..2
  /\ pc[BOOT] \in Using => call[BOOT].disk \in Device /\ call[BOOT].op = "identify"

(* How far the device is with the command of t, at each place where t can  *)
(* be in it.                                                               *)
Stage(t) ==
  LET s == status[selected]
      asked == lba = call[t].sector /\ NoSignal IN
  /\ pc[t] = "command" => s = "idle" /\ asked
  /\ pc[t] = "down" /\ call[t].op # "write" =>
       (s = "reading" /\ asked) \/ (s \in {"read", "idle"} /\ Signalled)
  /\ pc[t] = "transfer" /\ call[t].op # "write" => s \in {"read", "idle"} /\ NoSignal
  /\ pc[t] = "transfer" /\ call[t].op = "write" =>
       (s \in {"preparing", "prepared"} /\ asked) \/ (s = "idle" /\ Signalled)
  /\ pc[t] = "down" /\ call[t].op = "write" =>
       \/ s = "writing" /\ asked /\ data = call[t].value
       \/ s = "idle" /\ Signalled /\ store[<<selected, call[t].sector>>] = call[t].value
  /\ s = "read" /\ call[t].op = "read" => data = store[<<selected, call[t].sector>>]

(* The devices are idle and silent, but for the one that has the command.  *)
ChannelOK ==
  /\ (\A t \in Caller : pc[t] \notin Commanding) => NoSignal /\ \A d \in Device : status[d] = "idle"
  /\ \A t \in Caller : pc[t] \in Commanding =>
       /\ selected = call[t].disk
       /\ \A d \in Device : d # selected => status[d] = "idle"
       /\ Stage(t)

(* The inductive invariant *)
IInv == TransfersRight /\ BootOK /\ LockOK /\ CallOK /\ ChannelOK
(* What the parts of IInv about the channel say when t is the one caller   *)
(* that may use it.                                                        *)
Served(t) ==
  /\ t \in Thread /\ pc[t] = "unlock" =>
       /\ call[t].op = "write" => store[<<call[t].disk, call[t].sector>>] = call[t].value
       /\ call[t].op = "read" => buffer[t] = store[<<call[t].disk, call[t].sector>>]
  /\ pc[t] \notin Commanding => NoSignal /\ \A d \in Device : status[d] = "idle"
  /\ pc[t] \in Commanding =>
       /\ selected = call[t].disk
       /\ \A d \in Device : d # selected => status[d] = "idle"
       /\ Stage(t)

(* acquire_lock before select_sector, and disk_init before any thread: one *)
(* caller at a time uses the channel.                                      *)
LEMMA OneUser ==
  ASSUME IInv, NEW t \in Caller, NEW u \in Caller, pc[t] \in Using, pc[u] \in Using
  PROVE  t = u
<1>1. BootOK /\ LockOK
  BY DEF IInv
<1>2. pc[BOOT] \in Using => \A v \in Thread : pc[v] \notin Using
  BY <1>1 DEF BootOK, Booting, Using
<1>3. QED
  BY <1>1, <1>2 DEF LockOK, Caller

(* The user of the channel is served as IInv says. *)
LEMMA UserServed ==
  ASSUME IInv, NEW t \in Caller, pc[t] \in Using
  PROVE  Served(t)
<1>1. ChannelOK /\ WriteAcknowledged /\ ReadCurrent
  BY DEF IInv, TransfersRight
<1>2. pc[t] \notin Commanding => \A u \in Caller : pc[u] \notin Commanding
  BY OneUser DEF Using, Commanding
<1>3. QED
  BY <1>1, <1>2 DEF Served, ChannelOK, WriteAcknowledged, ReadCurrent

(* And if the one caller that may use it is served so after a step, all    *)
(* callers are.                                                            *)
LEMMA ServedSuffices ==
  ASSUME NEW t \in Caller, (TypeOK /\ BootOK /\ LockOK /\ CallOK)', Served(t)',
         \A u \in Caller : u # t => pc'[u] \notin Using
  PROVE  IInv'
<1>1. ChannelOK'
  BY DEF ChannelOK, Served, Using, Commanding
<1>2. CleanStart'
  BY DEF CleanStart, Served, Using, Commanding, NoSignal
<1>3. WriteAcknowledged' /\ ReadCurrent'
  BY DEF WriteAcknowledged, ReadCurrent, Served, Using, Caller
<1>4. QED
  BY <1>1, <1>2, <1>3 DEF IInv, TransfersRight

(* A device that is at work, or an interrupt, is due to one caller.        *)
LEMMA WhoseCommand ==
  ASSUME IInv, intrq \/ status[selected] # "idle"
  PROVE  \E t \in Caller : pc[t] \in Commanding
  BY DEF IInv, TransfersRight, TypeOK, ChannelOK, NoSignal

(* The channel is left alone by the other callers while t uses it.         *)
LEMMA OthersAway ==
  ASSUME IInv, NEW t \in Caller, pc[t] \in Using, NEW u \in Caller, u # t
  PROVE  pc[u] \notin Using
  BY OneUser

(* A step of a device, or of interrupt_handler, moves no caller. *)
LEMMA BooksKept ==
  ASSUME BootOK, LockOK, CallOK, UNCHANGED <<lock, pc, call, signature>>
  PROVE  (BootOK /\ LockOK /\ CallOK)'
<1>1. BootOK' /\ LockOK'
  BY DEF BootOK, LockOK
<1>2. CallOK'
  BY DEF CallOK
<1>3. QED
  BY <1>1, <1>2

(* interrupt_handler passes the end of the command on. *)
LEMMA InterruptStep ==
  ASSUME IInv, interrupt_handler
  PROVE  IInv'
<1>1. PICK t \in Caller : pc[t] \in Commanding
  BY WhoseCommand DEF interrupt_handler
<1>2. pc[t] \in Using
  BY <1>1 DEF Commanding, Using
<1>3. TypeOK /\ BootOK /\ LockOK /\ CallOK /\ Served(t)
  BY <1>2, UserServed DEF IInv, TransfersRight
<1>4. intrq /\ intrq' = FALSE /\ completion_wait = 0 /\ completion_wait' = 1
  BY <1>1, <1>3 DEF interrupt_handler, Acknowledged, Served, Stage, Commanding, NoSignal, Signalled, TypeOK
<1>5. UNCHANGED <<lock, expecting_interrupt, is_ata, selected, lba, status, data, store, pc, call, buffer, signature>>
  BY DEF interrupt_handler
<1>6. (TypeOK /\ BootOK /\ LockOK /\ CallOK)'
  <2>1. TypeOK'
    BY <1>3, <1>4, <1>5, Zenon DEF TypeOK
  <2>2. QED
    BY <1>3, <1>5, <2>1, BooksKept
<1>7. Served(t)'
  BY <1>1, <1>3, <1>4, <1>5 DEF Served, Stage, Commanding, NoSignal, Signalled
<1>8. QED
  BY <1>2, <1>5, <1>6, <1>7, OthersAway, ServedSuffices

(* A device goes on with its command, or fails. *)
LEMMA DeviceStepOK ==
  ASSUME IInv, DeviceStep \/ DeviceFails
  PROVE  IInv'
<1>0. status[selected] \in {"reading", "preparing", "writing"}
  BY DEF DeviceStep, DeviceReads, DeviceAsks, DeviceWrites, DeviceFails
<1>1. PICK t \in Caller : pc[t] \in Commanding
  BY <1>0, WhoseCommand
<1>2. pc[t] \in Using
  BY <1>1 DEF Commanding, Using
<1>3. TypeOK /\ BootOK /\ LockOK /\ CallOK /\ Served(t)
  BY <1>2, UserServed DEF IInv, TransfersRight
<1>4. UNCHANGED <<lock, expecting_interrupt, completion_wait, is_ata, selected, pc, call, buffer, signature>>
  BY DEF DeviceStep, DeviceReads, DeviceAsks, DeviceWrites, DeviceFails, driver
<1>5. /\ selected \in Device /\ selected = call[t].disk /\ lba = call[t].sector /\ NoSignal
      /\ status \in [Device -> {"idle", "reading", "read", "preparing", "prepared", "writing"}]
      /\ \A d \in Device : d # selected => status[d] = "idle"
      /\ status[selected] = "reading" => pc[t] = "down" /\ call[t].op # "write"
      /\ status[selected] = "preparing" => pc[t] = "transfer" /\ call[t].op = "write"
      /\ status[selected] = "writing" => pc[t] = "down" /\ call[t].op = "write" /\ data = call[t].value
  BY <1>0, <1>1, <1>3 DEF Served, Stage, Commanding, TypeOK
<1>6. call[t].op \in {"read", "write"} => lba \in Sector /\ lba # NULL /\ (call[t].op = "write" => call[t].value \in Value)
  BY <1>2, <1>3, <1>5, DiskAssumption DEF CallOK, Calls, Caller
<1>7. store \in [Device \X Sector -> Value] /\ data \in Value \cup {NULL}
  BY <1>3 DEF TypeOK
<1>8. CASE DeviceReads
  <2>1. status' = [status EXCEPT ![selected] = "read"] /\ intrq' = TRUE /\ lba' = NULL /\ store' = store
    BY <1>8 DEF DeviceReads
  <2>2. status[selected] = "reading" /\ data' = IF lba = NULL THEN NULL ELSE store[<<selected, lba>>]
    BY <1>8 DEF DeviceReads
  <2>3. data' \in Value \cup {NULL}
    BY <2>2, <1>3, <1>5, <1>7 DEF TypeOK
  <2>4. TypeOK'
    BY <2>1, <2>3, <1>3, <1>4 DEF TypeOK
  <2>5. call[t].op = "read" => data' = store'[<<selected', call'[t].sector>>]
    BY <2>1, <2>2, <1>4, <1>5, <1>6
  <2>6. Served(t)'
    BY <2>1, <2>2, <2>5, <1>4, <1>5 DEF Served, Stage, Commanding, NoSignal, Signalled
  <2>7. QED
    BY <2>4, <2>6, <1>2, <1>3, <1>4, BooksKept, OthersAway, ServedSuffices
<1>9. CASE DeviceAsks
  <2>1. /\ status[selected] = "preparing" /\ status' = [status EXCEPT ![selected] = "prepared"]
        /\ UNCHANGED <<intrq, lba, store, data>>
    BY <1>9 DEF DeviceAsks
  <2>2. TypeOK'
    BY <2>1, <1>3, <1>4 DEF TypeOK
  <2>3. Served(t)'
    BY <2>1, <1>4, <1>5 DEF Served, Stage, Commanding, NoSignal, Signalled
  <2>4. QED
    BY <2>2, <2>3, <1>2, <1>3, <1>4, BooksKept, OthersAway, ServedSuffices
<1>10. CASE DeviceWrites
  <2>1. /\ status[selected] = "writing" /\ status' = [status EXCEPT ![selected] = "idle"]
        /\ intrq' = TRUE /\ lba' = NULL /\ data' = NULL
        /\ store' = [store EXCEPT ![<<selected, lba>>] = data]
    BY <1>10 DEF DeviceWrites
  <2>2. data \in Value /\ lba \in Sector /\ <<selected, lba>> \in Device \X Sector
    BY <2>1, <1>5, <1>6
  <2>3. store' \in [Device \X Sector -> Value] /\ store'[<<selected, lba>>] = data
    BY <2>1, <2>2, <1>7
  <2>4. TypeOK'
    BY <2>1, <2>3, <1>3, <1>4 DEF TypeOK
  <2>5. Served(t)'
    BY <2>1, <2>3, <1>4, <1>5 DEF Served, Stage, Commanding, NoSignal, Signalled
  <2>6. QED
    BY <2>4, <2>5, <1>2, <1>3, <1>4, BooksKept, OthersAway, ServedSuffices
<1>11. CASE DeviceFails
  <2>1. /\ status[selected] \in {"reading", "preparing"} /\ status' = [status EXCEPT ![selected] = "idle"]
        /\ intrq' = TRUE /\ lba' = NULL /\ UNCHANGED <<data, store>>
    BY <1>11 DEF DeviceFails
  <2>2. TypeOK'
    BY <2>1, <1>3, <1>4 DEF TypeOK
  <2>3. Served(t)'
    BY <2>1, <1>4, <1>5 DEF Served, Stage, Commanding, NoSignal, Signalled
  <2>4. QED
    BY <2>2, <2>3, <1>2, <1>3, <1>4, BooksKept, OthersAway, ServedSuffices
<1>12. QED
  BY <1>8, <1>9, <1>10, <1>11 DEF DeviceStep

(* A call is made: its caller waits for the channel. *)
LEMMA CallStep ==
  ASSUME IInv, NEW t \in Thread, NEW c \in Calls, Call(t, c)
  PROVE  IInv'
<1>1. /\ TypeOK /\ CleanStart /\ WriteAcknowledged /\ ReadCurrent
      /\ BootOK /\ LockOK /\ CallOK /\ ChannelOK
  BY DEF IInv, TransfersRight
<1>2. t \in Caller /\ t # BOOT /\ pc[t] = "idle" /\ pc'[t] = "lock" /\ call'[t] = c
      /\ \A u \in Caller : u # t => pc'[u] = pc[u] /\ call'[u] = call[u]
  BY <1>1, DiskAssumption DEF Call, TypeOK, CallOK, Caller
<1>3. UNCHANGED <<lock, expecting_interrupt, completion_wait, is_ata, selected, lba, data, status, intrq, store,
                  buffer, signature>>
  BY DEF Call, driver, device
<1>4. TypeOK'
  <2>1. pc' \in [Caller -> {"booting", "check", "identify", "idle", "lock", "select", "command", "down",
                            "transfer", "unlock"}]
    BY <1>1, <1>2 DEF Call, TypeOK
  <2>2. QED
    BY <2>1, <1>1, <1>3 DEF TypeOK
<1>5. CleanStart' /\ WriteAcknowledged' /\ ReadCurrent'
  BY <1>1, <1>2, <1>3 DEF CleanStart, WriteAcknowledged, ReadCurrent, Caller
<1>6. BootOK' /\ LockOK'
  BY <1>1, <1>2, <1>3 DEF BootOK, LockOK, Using, Booting, Caller
<1>7. CallOK'
  <2>1. c \in CallRecord
    BY DEF Calls, CallRecord, Device
  <2>2. call' = [call EXCEPT ![t] = c]
    BY DEF Call
  <2>3. QED
    BY <1>1, <1>2, <2>1, <2>2 DEF CallOK, Using, Caller
<1>8. ChannelOK'
  BY <1>1, <1>2, <1>3 DEF ChannelOK, Stage, Commanding, NoSignal, Signalled
<1>9. QED
  BY <1>4, <1>5, <1>6, <1>7, <1>8 DEF IInv, TransfersRight

(* What a step of t leaves of the books when it moves t alone, from one    *)
(* place in its use of the channel to another.                             *)
LEMMA MoveKeeps ==
  ASSUME IInv, NEW t \in Caller, NEW q, pc[t] \in Using, pc' = [pc EXCEPT ![t] = q],
         q \in Using, t = BOOT => q # "unlock",
         UNCHANGED <<lock, call, signature>>
  PROVE  (BootOK /\ LockOK /\ CallOK)' /\ \A u \in Caller : u # t => pc'[u] \notin Using
<1>1. BootOK /\ LockOK /\ CallOK /\ TypeOK
  BY DEF IInv, TransfersRight
<1>2. pc'[t] = q /\ \A u \in Caller : u # t => pc'[u] = pc[u] /\ pc[u] \notin Using
  BY <1>1, OthersAway DEF TypeOK
<1>3. BootOK'
  BY <1>1, <1>2, DiskAssumption DEF BootOK, Booting, Using, Caller
<1>4. LockOK'
  BY <1>1, <1>2 DEF LockOK, Caller
<1>5. CallOK'
  BY <1>1, <1>2 DEF CallOK, Using, Caller
<1>6. QED
  BY <1>2, <1>3, <1>4, <1>5

(* select_sector, issue_pio_command and sema_down *)
LEMMA SelectStep ==
  ASSUME IInv, NEW t \in Caller, select_sector(t) \/ issue_pio_command(t) \/ sema_down(t)
  PROVE  IInv'
<1>1. TypeOK /\ CallOK
  BY DEF IInv, TransfersRight
<1>2. pc[t] \in Using /\ pc[t] # "unlock"
  BY DEF select_sector, issue_pio_command, sema_down, Using
<1>3. Served(t) /\ (t = BOOT => call[t].op = "identify") /\ call[t].disk \in Device
  BY <1>1, <1>2, UserServed DEF CallOK, Calls, Caller, Using
<1>4. UNCHANGED <<lock, is_ata, data, store, call, buffer, signature>>
  BY DEF select_sector, issue_pio_command, sema_down, driver, device
<1>5. CASE select_sector(t)
  <2>1. /\ pc[t] = "select" /\ pc' = [pc EXCEPT ![t] = "command"]
        /\ selected' = call[t].disk /\ lba' = call[t].sector /\ intrq' = FALSE
        /\ UNCHANGED <<expecting_interrupt, completion_wait, status>>
    BY <1>5 DEF select_sector, select_device, driver
  <2>2. lba' \in Sector \cup {NULL}
    <3>1. call[t] \in CallRecord
      BY <1>1 DEF CallOK
    <3>2. QED
      BY <3>1, <2>1 DEF CallRecord
  <2>3. TypeOK' /\ pc'[t] = "command"
    BY <2>1, <2>2, <1>1, <1>3, <1>4, Zenon DEF TypeOK
  <2>4. Served(t)'
    BY <2>1, <2>3, <1>3, <1>4 DEF Served, Stage, Commanding, NoSignal
  <2>5. QED
    BY <2>1, <2>3, <2>4, <1>2, <1>4, MoveKeeps, ServedSuffices, Zenon DEF Using
<1>6. CASE issue_pio_command(t)
  <2> DEFINE s == IF call[t].op = "write" THEN "preparing" ELSE "reading"
             q == IF call[t].op = "write" THEN "transfer" ELSE "down"
  <2>1. /\ pc[t] = "command" /\ pc' = [pc EXCEPT ![t] = q]
        /\ status' = [status EXCEPT ![selected] = s] /\ expecting_interrupt' = TRUE
        /\ UNCHANGED <<completion_wait, selected, lba, intrq>>
    BY <1>6 DEF issue_pio_command, Expecting
  <2>2. /\ s \in {"preparing", "reading"} /\ q \in {"transfer", "down"}
        /\ call[t].op = "write" => s = "preparing" /\ q = "transfer"
        /\ call[t].op # "write" => s = "reading" /\ q = "down"
    OBVIOUS
  <2> HIDE DEF s, q
  <2>3. TypeOK'
    BY <2>1, <2>2, <1>1, <1>4 DEF TypeOK
  <2>4. pc'[t] = q /\ status'[selected] = s /\ \A d \in Device : d # selected => status'[d] = status[d]
    BY <2>1, <1>1, Zenon DEF TypeOK
  <2>5. Served(t)'
    BY <2>1, <2>2, <2>4, <1>3, <1>4 DEF Served, Stage, Commanding, NoSignal
  <2>6. q \in Using /\ q # "unlock"
    BY <2>2 DEF Using
  <2>7. QED
    BY <2>1, <2>3, <2>5, <2>6, <1>2, <1>4, MoveKeeps, ServedSuffices, Zenon
<1>7. CASE sema_down(t)
  <2> DEFINE q == IF call[t].op = "write" THEN "unlock" ELSE "transfer"
  <2>1. /\ pc[t] = "down" /\ pc' = [pc EXCEPT ![t] = q]
        /\ completion_wait > 0 /\ completion_wait' = completion_wait - 1
        /\ UNCHANGED <<expecting_interrupt, selected, lba, status, intrq>>
    BY <1>7, Zenon DEF sema_down, Downed, device
  <2>2. /\ q \in {"unlock", "transfer"}
        /\ call[t].op = "write" => q = "unlock"
        /\ call[t].op # "write" => q = "transfer"
    OBVIOUS
  <2> HIDE DEF q
  <2>3. completion_wait = 1 /\ completion_wait' = 0 /\ intrq = FALSE
    <3>1. completion_wait \in {0, 1} /\ intrq \in BOOLEAN
      BY <1>1 DEF TypeOK
    <3>2. completion_wait # 0
      BY <2>1
    <3>3. QED
      BY <2>1, <3>1, <3>2, <1>3 DEF Served, Stage, Commanding, NoSignal, Signalled
  <2>4. TypeOK' /\ pc'[t] = q
    BY <2>1, <2>2, <2>3, <1>1, <1>4 DEF TypeOK
  <2>5. Served(t)'
    BY <2>1, <2>2, <2>3, <2>4, <1>3, <1>4 DEF Served, Stage, Commanding, NoSignal, Signalled
  <2>6. q \in Using /\ (t = BOOT => q # "unlock")
    BY <2>2, <1>3 DEF Using
  <2>7. QED
    BY <2>1, <2>4, <2>5, <2>6, <1>2, <1>4, MoveKeeps, ServedSuffices, Zenon
<1>8. QED
  BY <1>5, <1>6, <1>7

(* lock_acquire and lock_release of the channel *)
LEMMA LockStep ==
  ASSUME IInv, NEW t \in Caller, Acquire(t) \/ Release(t)
  PROVE  IInv'
<1>1. TypeOK /\ BootOK /\ LockOK /\ CallOK /\ ChannelOK
  BY DEF IInv, TransfersRight
<1>2. t \in Thread /\ t # BOOT /\ pc[BOOT] = "idle"
  BY <1>1, DiskAssumption DEF Acquire, Release, BootOK, Booting, Caller
<1>3. UNCHANGED <<expecting_interrupt, completion_wait, is_ata, selected, lba, data, status, intrq, store,
                  buffer, signature>>
  BY Zenon DEF Acquire, Release, device
<1>4. CASE Acquire(t)
  <2>1. /\ pc[t] = "lock" /\ lock = NULL /\ lock' = t /\ pc' = [pc EXCEPT ![t] = "select"] /\ call' = call
    BY <1>4 DEF Acquire
  <2>2. pc'[t] = "select" /\ \A u \in Caller : pc[u] \notin Using /\ (u # t => pc'[u] = pc[u])
    BY <2>1, <1>1, <1>2, DiskAssumption DEF TypeOK, LockOK, Using, Caller
  <2>3. TypeOK'
    BY <2>1, <1>1, <1>2, <1>3 DEF TypeOK
  <2>4. BootOK' /\ LockOK'
    BY <2>1, <2>2, <1>1, <1>2 DEF BootOK, LockOK, Booting, Using, Caller
  <2>5. CallOK'
    BY <2>1, <2>2, <1>1, <1>2, Zenon DEF CallOK, Using, Caller
  <2>6. Served(t)'
    BY <2>2, <1>1, <1>3 DEF Served, ChannelOK, Commanding, Using, NoSignal
  <2>7. QED
    BY <2>2, <2>3, <2>4, <2>5, <2>6, ServedSuffices
<1>5. CASE Release(t)
  <2>1. /\ pc[t] = "unlock" /\ lock' = NULL /\ pc' = [pc EXCEPT ![t] = "idle"]
        /\ call' = [call EXCEPT ![t] = NoCall]
    BY <1>5 DEF Release
  <2>2. pc[t] \in Using /\ Served(t)
    BY <2>1, UserServed DEF Using
  <2>3. /\ pc'[t] = "idle" /\ call'[t] = NoCall
        /\ \A u \in Caller : u # t => pc[u] \notin Using /\ pc'[u] = pc[u] /\ call'[u] = call[u]
    BY <2>1, <2>2, <1>1, OthersAway DEF TypeOK, CallOK
  <2>4. TypeOK'
    BY <2>1, <1>1, <1>3 DEF TypeOK
  <2>5. BootOK' /\ LockOK'
    BY <2>1, <2>3, <1>1, <1>2, DiskAssumption DEF BootOK, LockOK, Booting, Using, Caller
  <2>6. CallOK'
    <3>1. NoCall \in CallRecord
      BY DEF NoCall, CallRecord
    <3>2. call' \in [Caller -> CallRecord]
      BY <3>1, <2>1, <1>1 DEF CallOK
    <3>3. QED
      BY <3>2, <2>3, <1>1, <1>2 DEF CallOK, Using, Caller
  <2>7. Served(t)'
    BY <2>1, <2>2, <2>3, <1>3 DEF Served, Commanding, NoSignal
  <2>8. QED
    BY <2>3, <2>4, <2>5, <2>6, <2>7, ServedSuffices
<1>6. QED
  BY <1>4, <1>5

(* wait_while_busy and then input_sector or output_sector, in disk_read    *)
(* and disk_write                                                          *)
LEMMA TransferStep ==
  ASSUME IInv, NEW t \in Thread, Transfer(t)
  PROVE  IInv'
<1>1. TypeOK /\ CallOK
  BY DEF IInv, TransfersRight
<1>2. t \in Caller /\ t # BOOT /\ pc[t] = "transfer" /\ pc[t] \in Using
  BY DiskAssumption DEF Transfer, Using, Caller
<1>3. Served(t) /\ call[t] \in Calls
  BY <1>1, <1>2, UserServed DEF CallOK
<1>4. call[t].op \in {"read", "write"} /\ call[t].sector \in Sector /\ call[t].disk \in Device
      /\ (call[t].op = "write" => call[t].value \in Value)
  BY <1>3 DEF Calls
<1>5. UNCHANGED <<lock, expecting_interrupt, completion_wait, selected, lba, intrq, store, signature>>
  BY DEF Transfer
<1>6. UNCHANGED <<is_ata, call>>
  BY <1>4 DEF Transfer
<1>7. CASE ~DRQ(selected)
  <2>1. UNCHANGED <<pc, data, status, buffer>>
    BY <1>4, <1>7 DEF Transfer
  <2>2. TypeOK'
    BY <2>1, <1>1, <1>5, <1>6 DEF TypeOK
  <2>3. Served(t)'
    BY <2>1, <1>3, <1>5, <1>6, Zenon DEF Served, Stage, Commanding, NoSignal, Signalled
  <2>4. (BootOK /\ LockOK /\ CallOK)'
    BY <2>1, <1>5, <1>6, BooksKept DEF IInv
  <2>5. QED
    BY <2>1, <2>2, <2>3, <2>4, <1>2, OthersAway, ServedSuffices
<1>8. CASE DRQ(selected) /\ call[t].op = "write"
  <2>1. /\ data' = call[t].value /\ status' = [status EXCEPT ![selected] = "writing"]
        /\ pc' = [pc EXCEPT ![t] = "down"] /\ buffer' = buffer
    BY <1>8 DEF Transfer, AfterOutput
  <2>2. TypeOK'
    BY <2>1, <1>1, <1>4, <1>5, <1>6, <1>8, Zenon DEF TypeOK
  <2>3. selected = call[t].disk /\ lba = call[t].sector /\ NoSignal
    BY <1>2, <1>3, <1>8 DEF Served, Stage, Commanding, DRQ
  <2>4. pc'[t] = "down" /\ status'[selected] = "writing" /\ \A d \in Device : d # selected => status'[d] = status[d]
    BY <2>1, <1>1, <1>2, Zenon DEF TypeOK
  <2>5. Served(t)'
    BY <2>1, <2>3, <2>4, <1>2, <1>3, <1>5, <1>6, <1>8, Zenon DEF Served, Stage, Commanding, NoSignal, Signalled
  <2>6. QED
    BY <2>1, <2>2, <2>5, <1>2, <1>5, <1>6, MoveKeeps, ServedSuffices, Zenon DEF Using
<1>9. CASE DRQ(selected) /\ call[t].op # "write"
  <2>1. /\ call[t].op = "read" /\ data' = NULL /\ status' = [status EXCEPT ![selected] = "idle"]
        /\ buffer' = [buffer EXCEPT ![t] = data] /\ pc' = [pc EXCEPT ![t] = "unlock"]
    BY <1>4, <1>9 DEF Transfer
  <2>2. /\ selected = call[t].disk /\ NoSignal /\ data = store[<<call[t].disk, call[t].sector>>]
        /\ \A d \in Device : d # selected => status[d] = "idle"
    BY <2>1, <1>2, <1>3, <1>9 DEF Served, Stage, Commanding, DRQ
  <2>3. data \in Value
    BY <2>2, <1>1, <1>4 DEF TypeOK
  <2>4. TypeOK'
    BY <2>1, <2>3, <1>1, <1>5, <1>6, Zenon DEF TypeOK
  <2>5. pc'[t] = "unlock" /\ buffer'[t] = data /\ \A d \in Device : status'[d] = "idle"
    BY <2>1, <2>2, <1>1, <1>2 DEF TypeOK
  <2>6. Served(t)'
    BY <2>1, <2>2, <2>5, <1>5, <1>6 DEF Served, Commanding, NoSignal
  <2>7. QED
    BY <2>1, <2>4, <2>6, <1>2, <1>5, <1>6, MoveKeeps, ServedSuffices, Zenon DEF Using
<1>10. QED
  BY <1>7, <1>8, <1>9

(* check_device_type for both devices, and the loop of disk_init.          *)
LEMMA BootStepOK ==
  ASSUME IInv, BootStep
  PROVE  IInv'
<1>1. TypeOK /\ BootOK /\ LockOK /\ CallOK /\ ChannelOK
  BY DEF IInv, TransfersRight
<1>2. BOOT \in Caller /\ pc[BOOT] \in {"check", "identify"}
  BY DEF BootStep, CheckDevices, Identify, Caller
<1>3. lock = NULL /\ \A t \in Thread : pc[t] = "booting"
  BY <1>1, <1>2 DEF BootOK, Booting
<1>4. NoSignal /\ \A d \in Device : status[d] = "idle"
  BY <1>1, <1>2, <1>3 DEF ChannelOK, Commanding, Caller
<1>5. UNCHANGED <<lock, expecting_interrupt, completion_wait, lba, data, status, intrq, store, buffer>>
  BY DEF BootStep, CheckDevices, Identify, driver, device
<1>6. ASSUME (TypeOK /\ BootOK /\ CallOK)', pc'[BOOT] \notin Commanding \cup {"unlock"},
             \A t \in Thread : pc'[t] \notin Using
      PROVE  IInv'
  <2>1. LockOK'
    BY <1>3, <1>5, <1>6, DiskAssumption DEF LockOK
  <2>2. Served(BOOT)'
    BY <1>4, <1>5, <1>6 DEF Served, NoSignal
  <2>3. QED
    BY <1>2, <1>6, <2>1, <2>2, ServedSuffices DEF Caller
<1>7. CASE CheckDevices
  <2>1. pc[BOOT] = "check" /\ pc' = [pc EXCEPT ![BOOT] = "identify"]
        /\ call' = [call EXCEPT ![BOOT] = [NoCall EXCEPT !.disk = 0]] /\ selected' \in Device
    BY <1>7 DEF CheckDevices, Device
  <2>2. is_ata' \in [Device -> BOOLEAN]
    BY <1>7 DEF CheckDevices, check_device_type, Answers
  <2>3. TypeOK'
    BY <2>1, <2>2, <1>1, <1>5, Zenon DEF TypeOK
  <2>4. pc'[BOOT] = "identify" /\ \A t \in Thread : pc'[t] = "booting"
    BY <2>1, <1>1, <1>2, <1>3, DiskAssumption DEF TypeOK, Caller
  <2>5. BootOK'
    BY <2>4, <1>3, <1>5 DEF BootOK, Booting
  <2>6. CallOK'
    <3>1. [NoCall EXCEPT !.disk = 0] = [op |-> "none", disk |-> 0, sector |-> NULL, value |-> NULL]
      BY DEF NoCall
    <3>2. call'[BOOT] = [op |-> "none", disk |-> 0, sector |-> NULL, value |-> NULL]
      BY <3>1, <2>1, <1>1, <1>2 DEF CallOK
    <3>3. [NoCall EXCEPT !.disk = 0] \in CallRecord
      BY <3>1 DEF CallRecord
    <3>4. call' \in [Caller -> CallRecord]
      BY <3>3, <2>1, <1>1, Zenon DEF CallOK
    <3>5. QED
      BY <3>2, <3>4, <2>4 DEF CallOK, Using
  <2>7. QED
    BY <2>3, <2>4, <2>5, <2>6, <1>6 DEF Commanding, Using
<1>8. CASE Identify
  <2>1. pc[BOOT] = "identify" /\ call[BOOT].disk \in 0..2 /\ UNCHANGED <<is_ata, selected, signature>>
    BY <1>8, <1>1 DEF Identify, CallOK, driver, device
  <2>2. CASE call[BOOT].disk \notin Device
    <3>1. pc' = [t \in Caller |-> "idle"] /\ call' = [call EXCEPT ![BOOT] = NoCall]
      BY <1>8, <2>2 DEF Identify
    <3>2. TypeOK' /\ BootOK'
      BY <3>1, <2>1, <1>1, <1>2, <1>5 DEF TypeOK, BootOK, Booting, Caller
    <3>3. NoCall \in CallRecord
      BY DEF NoCall, CallRecord
    <3>4. call' \in [Caller -> CallRecord]
          /\ call'[BOOT] = NoCall
      BY <3>1, <3>3, <1>1, <1>2 DEF CallOK
    <3>5. CallOK'
      BY <3>1, <3>4, <1>2 DEF CallOK, Using, Caller, NoCall
    <3>6. QED
      BY <3>1, <3>2, <3>5, <1>2, <1>6 DEF Commanding, Using, Caller
  <2>3. CASE call[BOOT].disk \in Device /\ ~is_ata[call[BOOT].disk]
    <3>1. pc' = pc /\ call' = [call EXCEPT ![BOOT].disk = call[BOOT].disk + 1]
      BY <1>8, <2>3 DEF Identify
    <3>2. TypeOK' /\ BootOK'
      BY <3>1, <2>1, <1>1, <1>5 DEF TypeOK, BootOK
    <3>3. call[BOOT].disk + 1 \in 0..2
      BY <2>3 DEF Device
    <3>4. CallOK'
      BY <3>1, <3>3, <2>1, <1>1, <1>2, <1>3 DEF CallOK, CallRecord, Using, Caller
    <3>5. QED
      BY <3>1, <3>2, <3>4, <2>1, <1>3, <1>6 DEF Commanding, Using
  <2>4. CASE call[BOOT].disk \in Device /\ is_ata[call[BOOT].disk]
    <3>1. pc' = [pc EXCEPT ![BOOT] = "select"] /\ call' = [call EXCEPT ![BOOT].op = "identify"]
      BY <1>8, <2>4 DEF Identify
    <3>2. pc'[BOOT] = "select" /\ \A t \in Thread : pc'[t] = "booting"
      BY <3>1, <1>1, <1>2, <1>3, DiskAssumption DEF TypeOK, Caller
    <3>3. TypeOK'
      BY <3>1, <2>1, <1>1, <1>5, Zenon DEF TypeOK
    <3>4. BootOK'
      BY <3>2, <1>3, <1>5 DEF BootOK, Booting
    <3>5. CallOK'
      BY <3>1, <3>2, <2>4, <1>1, <1>2 DEF CallOK, CallRecord, Using
    <3>6. QED
      BY <3>2, <3>3, <3>4, <3>5, <1>6 DEF Commanding, Using
  <2>5. QED
    BY <2>2, <2>3, <2>4
<1>9. QED
  BY <1>7, <1>8 DEF BootStep

(* The transfer of disk_init: the answer of IDENTIFY, or none.             *)
LEMMA IdentifyTransferStep ==
  ASSUME IInv, Transfer(BOOT)
  PROVE  IInv'
<1>1. TypeOK /\ BootOK /\ LockOK /\ CallOK
  BY DEF IInv, TransfersRight
<1>2. BOOT \in Caller /\ pc[BOOT] = "transfer" /\ pc[BOOT] \in Using
  BY DEF Transfer, Using, Caller
<1>3. Served(BOOT) /\ call[BOOT].op = "identify" /\ call[BOOT].disk \in Device
  BY <1>1, <1>2, UserServed DEF CallOK
<1>4. lock = NULL /\ \A t \in Thread : pc[t] = "booting"
  BY <1>1, <1>2 DEF BootOK, Booting
<1>5. /\ pc' = [pc EXCEPT ![BOOT] = "identify"]
      /\ call' = [call EXCEPT ![BOOT].disk = call[BOOT].disk + 1]
      /\ UNCHANGED <<lock, expecting_interrupt, completion_wait, selected, lba, intrq, store, buffer, signature>>
  BY <1>3 DEF Transfer
<1>6. /\ NoSignal /\ status[selected] \in {"read", "idle"} /\ selected \in Device
      /\ \A d \in Device : d # selected => status[d] = "idle"
  BY <1>1, <1>2, <1>3 DEF Served, Stage, Commanding, TypeOK
<1>7. /\ data' \in Value \cup {NULL} /\ is_ata' \in [Device -> BOOLEAN]
      /\ status' \in [Device -> {"idle", "reading", "read", "preparing", "prepared", "writing"}]
      /\ \A d \in Device : status'[d] = "idle"
  <2>1. CASE DRQ(selected)
    <3>1. data' = NULL /\ status' = [status EXCEPT ![selected] = "idle"] /\ is_ata' = is_ata
      BY <2>1, <1>3 DEF Transfer
    <3>2. QED
      BY <3>1, <1>1, <1>6 DEF TypeOK
  <2>2. CASE ~DRQ(selected)
    <3>1. UNCHANGED <<data, status>> /\ is_ata' = [is_ata EXCEPT ![call[BOOT].disk] = FALSE]
      BY <2>2, <1>3 DEF Transfer
    <3>2. QED
      BY <3>1, <2>2, <1>1, <1>6, Zenon DEF TypeOK, DRQ
  <2>3. QED
    BY <2>1, <2>2
<1>8. pc'[BOOT] = "identify" /\ \A t \in Thread : pc'[t] = "booting"
  BY <1>1, <1>2, <1>4, <1>5, DiskAssumption DEF TypeOK, Caller
<1>9. TypeOK'
  BY <1>1, <1>5, <1>7, Zenon DEF TypeOK
<1>10. BootOK' /\ LockOK'
  BY <1>4, <1>5, <1>8, DiskAssumption DEF BootOK, LockOK, Booting, Using
<1>11. call[BOOT].disk + 1 \in 0..2
  BY <1>3 DEF Device
<1>12. CallOK'
  BY <1>1, <1>2, <1>5, <1>8, <1>11 DEF CallOK, CallRecord, Using, Caller
<1>13. Served(BOOT)'
  BY <1>5, <1>6, <1>7, <1>8 DEF Served, Commanding, NoSignal
<1>14. QED
  BY <1>2, <1>8, <1>9, <1>10, <1>12, <1>13, ServedSuffices DEF Using, Caller

----------------------------------------------------------------------------
LEMMA InitIInv == Init => IInv
<1> SUFFICES ASSUME Init PROVE IInv
  OBVIOUS
<1>1. /\ pc[BOOT] = "check" /\ BOOT \in Caller /\ \A t \in Thread : t \in Caller /\ pc[t] = "booting"
      /\ \A t \in Caller : pc[t] \in {"check", "booting"} /\ call[t] = NoCall
  BY DiskAssumption, Zenon DEF Init, Caller
<1>2. TypeOK
  BY DiskAssumption, Zenon DEF Init, TypeOK, Device
<1>3. CleanStart /\ WriteAcknowledged /\ ReadCurrent
  BY <1>1 DEF CleanStart, WriteAcknowledged, ReadCurrent, Caller
<1>4. BootOK /\ LockOK
  BY <1>1, DiskAssumption DEF Init, BootOK, LockOK, Booting, Using
<1>5. CallOK
  BY <1>1 DEF Init, CallOK, CallRecord, NoCall, Using
<1>6. ChannelOK
  BY <1>1 DEF Init, ChannelOK, Commanding, NoSignal
<1>7. QED
  BY <1>2, <1>3, <1>4, <1>5, <1>6 DEF IInv, TransfersRight

LEMMA NextIInv == IInv /\ [Next]_vars => IInv'
<1> SUFFICES ASSUME IInv, [Next]_vars PROVE IInv'
  OBVIOUS
<1>1. ASSUME UNCHANGED <<driver, device, pc, call, buffer, signature>> PROVE IInv'
  <2>1. UNCHANGED <<lock, expecting_interrupt, completion_wait, is_ata, selected, lba, data, status, intrq, store,
                    pc, call, buffer, signature>>
    BY <1>1 DEF driver, device
  <2>2. TypeOK' /\ (BootOK /\ LockOK /\ CallOK)'
    BY <2>1, BooksKept DEF IInv, TransfersRight, TypeOK
  <2>3. CleanStart' /\ WriteAcknowledged' /\ ReadCurrent'
    BY <2>1, Zenon DEF IInv, TransfersRight, CleanStart, WriteAcknowledged, ReadCurrent
  <2>4. ChannelOK'
    BY <2>1 DEF IInv, ChannelOK, Stage, NoSignal, Signalled
  <2>5. QED
    BY <2>2, <2>3, <2>4 DEF IInv, TransfersRight
<1>2. CASE UNCHANGED vars
  BY <1>1, <1>2 DEF vars
<1>3. CASE BootStep
  BY <1>3, BootStepOK
<1>4. CASE \E t \in Thread, c \in Calls : Call(t, c)
  BY <1>4, CallStep
<1>5. ASSUME NEW t \in Caller, CallerStep(t) PROVE IInv'
  <2>1. CASE Transfer(t)
    BY <2>1, TransferStep, IdentifyTransferStep DEF Caller
  <2>2. CASE Timeout(t)
    BY <2>2, <1>1 DEF Timeout
  <2>3. QED
    BY <1>5, <2>1, <2>2, LockStep, SelectStep DEF CallerStep
<1>6. CASE interrupt_handler
  BY <1>6, InterruptStep
<1>7. CASE DeviceStep \/ DeviceFails
  BY <1>7, DeviceStepOK
<1>8. QED
  BY <1>2, <1>3, <1>4, <1>5, <1>6, <1>7 DEF Next

(* The driver of disk.c keeps its books of the channel, for any number of  *)
(* callers and any interleaving with the devices and their interrupts.     *)
THEOREM DiskInvariant == Spec => []IInv
  BY InitIInv, NextIInv, PTL DEF Spec

(* disk_read and disk_write transfer the data of their own sector, and     *)
(* nothing of one command is left over when the next starts.               *)
THEOREM DiskTransfersRight == Spec => []TransfersRight
<1>1. IInv => TransfersRight
  BY DEF IInv
<1>2. QED
  BY <1>1, DiskInvariant, PTL
=============================================================================
