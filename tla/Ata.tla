-------------------------------- MODULE Ata --------------------------------
(***************************************************************************)
(* drivers/ata.c: programmed I/O with the two drives of the primary        *)
(* channel.  The driver polls the status register of the selected drive, a *)
(* limited number of times; the drives work at their own pace, may be      *)
(* slower than the driver waits, and go on with a command the driver has   *)
(* given up.                                                               *)
(*                                                                         *)
(* The drives are external: a busy drive ignores commands, one that is not *)
(* drops what it was doing for a new one; a write stores its sectors one   *)
(* by one, in order, and stops at the first that fails.  A sector of data  *)
(* is a number; its words are moved in one step.                           *)
(***************************************************************************)
EXTENDS Integers, Sequences

CONSTANTS
    Sectors,        \* the sectors of a drive: 0 .. n
    TIMEOUT,        \* polls of a status register     (100000)
    MaxCalls        \* bound: reads and writes in a behaviour

ASSUME AtaAssumption ==
    /\ Sectors \subseteq Nat /\ TIMEOUT \in Nat \ {0} /\ MaxCalls \in Nat

VARIABLES
    present,        \* drives[].present
    drive_reg,      \* the drive selected
    drives,         \* external: what each drive does
    disk,           \* external: what each drive holds
    call,           \* the call in progress, or the last one
    buffer,         \* the caller's buffer
    calls,          \* bounded counter
    last            \* history: the last write command, and the disk at that time

ataVars == << present, drive_reg, drives, disk, call, buffer, calls, last >>

Channel == {0, 1}
NoData == -1

Resting == [cmd |-> "none", at |-> 0, left |-> 0, data |-> NoData, status |-> "ready"]
NoCall == [pc |-> "boot", op |-> "none", drive |-> 0, lba |-> 0, count |-> 0,
           sector |-> 0, timeout |-> 0, result |-> 0]

AtaInit ==
    /\ present = [d \in Channel |-> FALSE]
    /\ drive_reg = 0
    /\ drives = [d \in Channel |-> Resting]
    /\ disk = [d \in Channel |-> [s \in Sectors |-> 0]]
    /\ call = NoCall /\ buffer = << >> /\ calls = 0
    /\ last = [before |-> disk, drive |-> 0, lba |-> 0, count |-> 0, data |-> 0]

----------------------------------------------------------------------------
(* The drives                                                              *)

\* A write to the command register.
Commanded(d, cmd, lba, count) ==
    IF drives[d].status = "busy" THEN drives
    ELSE [drives EXCEPT ![d] = [cmd |-> cmd, at |-> lba, left |-> count,
                                data |-> NoData, status |-> "busy"]]

Status(d, status) == drives' = [drives EXCEPT ![d].status = status]

\* A busy drive comes to an end with a step of its command, or fails.
drive_works(d) ==
    /\ drives[d].status = "busy"
    /\ \/ Status(d, "err") /\ UNCHANGED disk
       \/ /\ drives[d].cmd \in {"read", "identify", "write"} /\ drives[d].data = NoData
          /\ Status(d, "drq") /\ UNCHANGED disk
       \/ /\ drives[d].cmd = "write" /\ drives[d].data # NoData
          /\ disk' = [disk EXCEPT ![d][drives[d].at] = drives[d].data]
          /\ drives' = [drives EXCEPT
                          ![d] = [drives[d] EXCEPT
                                    !.at = @ + 1, !.data = NoData,
                                    !.status = IF drives[d].left = 0 THEN "ready" ELSE "drq"]]
       \/ drives[d].cmd = "flush" /\ Status(d, "ready") /\ UNCHANGED disk
    /\ UNCHANGED << present, drive_reg, call, buffer, calls, last >>

----------------------------------------------------------------------------
(* ata_init                                                                *)

\* ata_identify: there is no drive, it is not an ATA drive or it reports an
\* error; it does not answer in time; or it is found.
ata_identify(d) ==
    /\ drive_reg' = d
    /\ \/ UNCHANGED << present, drives >>
       \/ drives' = Commanded(d, "identify", 0, 1) /\ UNCHANGED present
       \/ present' = [present EXCEPT ![d] = TRUE] /\ UNCHANGED drives

\* Both drives are tried, the master first.
ata_init ==
    /\ call.pc = "boot"
    /\ ata_identify(call.drive)
    /\ call' = IF call.drive = 0 THEN [call EXCEPT !.drive = 1]
               ELSE [call EXCEPT !.pc = "idle"]
    /\ UNCHANGED << disk, buffer, calls, last >>

----------------------------------------------------------------------------
(* ata_read_sectors and ata_write_sectors                                  *)

\* The call returns, and its local variables are gone.
Returned(result) ==
    [call EXCEPT !.pc = "idle", !.sector = 0, !.timeout = 0, !.result = result]

Return(result) == call' = Returned(result)

\* A write stores the number of its call in every sector.
begin_call(op, d, lba, count) ==
    /\ call.pc = "idle" /\ calls < MaxCalls
    /\ present[d] /\ count > 0
    /\ calls' = calls + 1
    /\ call' = [pc |-> "ready", op |-> op, drive |-> d, lba |-> lba, count |-> count,
                sector |-> 0, timeout |-> TIMEOUT, result |-> 0]
    /\ buffer' = << >>
    /\ UNCHANGED << present, drive_reg, drives, disk, last >>

\* Fault: nobody counts the turns.
poll_again_for_ever == UNCHANGED call

\* One more turn of a polling loop.
poll_again == call' = [call EXCEPT !.timeout = @ - 1]

\* Fault: the loop does not wait.
ata_wait_ready_not ==
    /\ call.pc = "ready"
    /\ call' = [call EXCEPT !.pc = "command"]
    /\ UNCHANGED << present, drive_reg, drives, disk, buffer, calls, last >>

\* The status is that of the drive selected before.
ata_wait_ready ==
    /\ call.pc = "ready"
    /\ IF drives[drive_reg].status # "busy" /\ call.timeout > 0
       THEN call' = [call EXCEPT !.pc = "command"]
       ELSE IF call.timeout > 0 THEN poll_again ELSE Return(-1)
    /\ UNCHANGED << present, drive_reg, drives, disk, buffer, calls, last >>

\* The drive is selected and the command sent.
send_command ==
    /\ call.pc = "command"
    /\ drive_reg' = call.drive
    /\ drives' = Commanded(call.drive, call.op, call.lba, call.count)
    /\ last' = IF call.op = "read" THEN last
               ELSE [before |-> disk, drive |-> call.drive, lba |-> call.lba,
                     count |-> call.count, data |-> calls]
    /\ call' = [call EXCEPT !.pc = "drq", !.timeout = TIMEOUT]
    /\ UNCHANGED << present, disk, buffer, calls >>

\* Fault: the result of the wait is not looked at.
drq_failed_ignored ==
    /\ drives[drive_reg].status = "err" \/ call.timeout = 0
    /\ call' = [call EXCEPT !.pc = "transfer"]

drq_failed ==
    /\ drives[drive_reg].status = "err" \/ call.timeout = 0
    /\ Return(-1)

ata_wait_drq ==
    /\ call.pc = "drq"
    /\ \/ drq_failed
       \/ /\ call.timeout > 0 /\ drives[drive_reg].status = "drq"
          /\ call' = [call EXCEPT !.pc = "transfer"]
       \/ /\ call.timeout > 0 /\ drives[drive_reg].status \in {"busy", "ready"}
          /\ poll_again
    /\ UNCHANGED << present, drive_reg, drives, disk, buffer, calls, last >>

\* What a drive that is not asked for data takes no notice of.
Transferred(d, data) ==
    IF drives[d].status # "drq" THEN drives
    ELSE [drives EXCEPT ![d] = [drives[d] EXCEPT
                                  !.left = @ - 1, !.data = data,
                                  !.status = IF drives[d].left = 1 /\ data = NoData
                                             THEN "ready" ELSE "busy",
                                  !.at = IF data = NoData THEN @ + 1 ELSE @]]

AfterTransfer ==
    IF call.sector + 1 < call.count
    THEN [call EXCEPT !.sector = @ + 1, !.pc = "drq", !.timeout = TIMEOUT]
    ELSE IF call.op = "write" THEN [call EXCEPT !.pc = "flush_command"]
    ELSE Returned(call.count)

read_sector ==
    /\ call.pc = "transfer" /\ call.op = "read"
    /\ buffer' = Append(buffer, IF drives[drive_reg].cmd = "read"
                                THEN disk[drive_reg][drives[drive_reg].at] ELSE NoData)
    /\ drives' = Transferred(drive_reg, NoData)
    /\ call' = AfterTransfer
    /\ UNCHANGED << present, drive_reg, disk, calls, last >>

write_sector ==
    /\ call.pc = "transfer" /\ call.op = "write"
    /\ drives' = Transferred(drive_reg, calls)
    /\ call' = AfterTransfer
    /\ UNCHANGED << present, drive_reg, disk, buffer, calls, last >>

\* The command follows the last word at once: the drive may be busy with it.
flush_command ==
    /\ call.pc = "flush_command"
    /\ drives' = Commanded(drive_reg, "flush", 0, 0)
    /\ call' = [call EXCEPT !.pc = "flush", !.timeout = TIMEOUT]
    /\ UNCHANGED << present, drive_reg, disk, buffer, calls, last >>

\* The last wait; its result is ignored, and nobody looks for an error.
flush_wait ==
    /\ call.pc = "flush"
    /\ IF drives[drive_reg].status = "busy" /\ call.timeout > 0 THEN poll_again
       ELSE Return(call.count)
    /\ UNCHANGED << present, drive_reg, drives, disk, buffer, calls, last >>

AtaStep ==
    \/ ata_init \/ ata_wait_ready \/ send_command \/ ata_wait_drq
    \/ read_sector \/ write_sector \/ flush_command \/ flush_wait

AtaCall ==
    \E op \in {"read", "write"}, d \in Channel, lba \in Sectors, count \in 1 .. 2 :
        lba + count - 1 \in Sectors /\ begin_call(op, d, lba, count)

----------------------------------------------------------------------------
(* Properties                                                              *)

Done(op) == call.pc = "idle" /\ call.op = op

\* A read that succeeds returns what the drive holds in the sectors asked for,
\* and never the late answer to an earlier command that was given up: not even
\* of the other drive (ata_wait_ready before the drive is selected).
ReadIsTrue ==
    Done("read") /\ call.result = call.count
    => buffer = [k \in 1 .. call.count |-> disk[call.drive][call.lba + k - 1]]

\* The disk is as it was before the last write command, but for the first n
\* sectors of its range.
Written(n) ==
    disk = [last.before EXCEPT ![last.drive] =
              [s \in Sectors |-> IF s \in last.lba .. last.lba + n - 1
                                 THEN last.data ELSE @[s]]]

\* At every time, whether the last write succeeded, failed in the middle or was
\* given up, whatever calls came after it, and however late the drive stores
\* what it was given, no sector has changed but the first ones of the range of
\* that write; and a write that reports success has stored all of them, but
\* perhaps the last (ata_write_sectors).
WriteIsPrefix ==
    \E n \in 0 .. last.count :
        /\ Written(n)
        /\ Done("write") /\ call.result = call.count => n >= call.count - 1

\* ata.c:236 "Flush cache": a write that reports success is on the disk.
WriteIsStored ==
    Done("write") /\ call.result = call.count /\ drives[call.drive].status # "busy"
    => Written(call.count)
=============================================================================
