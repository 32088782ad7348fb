------------------------------- MODULE Journal -------------------------------
(***************************************************************************)
(* The journal of ext4_journal.c with its callers in ext4.c (start, stop,  *)
(* recover, transaction start / stop / abort) and the revocation made by   *)
(* ext4_balloc_free_blocks.  It is compiled in by CONFIG_JOURNALING_ENABLE.*)
(*                                                                         *)
(* One thread uses the file system, so a call runs to its end; what can    *)
(* happen in the middle of it is a power failure.  A call therefore changes*)
(* the memory of the journal, jn, at once and leaves in jn.w the device    *)
(* writes it makes, in their order; DeviceWrite carries them out one by one*)
(* and no other call starts before the last of them.  Crash may come       *)
(* between any two of them.                                                *)
(***************************************************************************)
EXTENDS Integers, Sequences, FiniteSets, SequencesExt

CONSTANTS
  Block,        \* the blocks of the file system that are journalled, numbers
  Value,        \* contents of a block
  MaxLen,       \* the log is the blocks 1 .. MaxLen-1 of the journal file
  IdMod,        \* transaction ids are counters modulo IdMod (2^32 in the code)
  TagsPerBlock, \* tags that fit in a descriptor block
  FirstSeq,     \* the sequence number the formatter left
  MaxSessions, MaxTrans, MaxCrashes, MaxAborts, MaxOps  \* bounds

ASSUME LogAssumption == MaxLen \in Nat /\ MaxLen > 2
ASSUME IdAssumption  == IdMod \in Nat /\ IdMod > 2 /\ FirstSeq \in 0 .. IdMod - 1

VARIABLES
  mode,   \* what the session is doing
  dev,    \* the device: home blocks, log blocks, the journal's super block
  jn,     \* the memory of the session and the writes it has under way
  work,   \* the file system as the operations done so far leave it
  kept,   \* the file system as the last committed transaction left it
  slips,  \* departures from the protocol, see the end of the module
  spent   \* what the bounds count

vars == <<mode, dev, jn, work, kept, slips, spent>>

NoTrans == -1
First == 1
Pos == First .. MaxLen - 1
Id == 0 .. IdMod - 1
None(v) == [kind |-> "none", id |-> 0, list |-> <<>>, val |-> v]
Rec(kind, id, list) == [kind |-> kind, id |-> id, list |-> list, val |-> 0]
Copy(v) == [kind |-> "data", id |-> 0, list |-> <<>>, val |-> v]

\* Mutant of WrapLog: the block behind the log counts as its last.
WrapLogLate(p) == IF p > MaxLen THEN p - (MaxLen - First) ELSE p

\* wrap(): a position past the end of the log continues at its first block.
WrapLog(p) == IF p >= MaxLen THEN p - (MaxLen - First) ELSE p

\* trans_id_diff: the difference of two ids as a signed number of their width.
TransIdDiff(x, y) ==
  LET d == (x - y) % IdMod IN IF 2 * d >= IdMod THEN d - IdMod ELSE d

NextId(i) == (i + 1) % IdMod
NotRunning == [id |-> NoTrans]

-----------------------------------------------------------------------------
(* Device writes.                                                          *)

Home(b, v)      == [to |-> "home", at |-> b, what |-> Copy(v)]
File(b, v)      == [to |-> "file", at |-> b, what |-> Copy(v)]
Log(p, r)       == [to |-> "log",  at |-> p, what |-> r]
Sb(start, seq)  == [to |-> "sb",   at |-> start, what |-> Rec("sb", seq, <<>>)]

Send(s, x) == [s EXCEPT !.w = Append(@, x)]

\* jbd_journal_write_sb followed by jbd_write_sb.
WriteSb(s) == Send(s, Sb(s.start, s.id))

-----------------------------------------------------------------------------
(* Checkpointing.  queue[b] is the dirty_buf_queue of b's block record: one*)
(* entry for every transaction whose copy of b is not known to be at home; *)
(* owner[b] is the record's transaction, hook[b] the transaction the       *)
(* buffer's end_write callback reports to.                                 *)

TransOf(s, t) == SelectSeq(s.cp, LAMBDA x : x.id = t)[1]
AfterTrans(x) == WrapLog(x.start + x.alloc)
Finished(x) == x.data = x.written
Entries(s, b) == {s.queue[b][i].t : i \in DOMAIN s.queue[b]}

\* What jbd_journal_free_trans(.., FALSE) does to the block records.
Disown(s, t) ==
  [s EXCEPT !.owner = [b \in Block |-> IF @[b] = t THEN NoTrans ELSE @[b]]]

\* The first transaction of the checkpoint queue leaves it, in memory.
DropHead(s) ==
  LET x == Head(s.cp)
  IN  [Disown(s, x.id) EXCEPT !.start = AfterTrans(x), !.id = NextId(x.id),
                              !.cp = Tail(@)]

\* The log begins with the transaction that is first by now.
StartAtHead(s) ==
  IF s.cp = <<>> THEN s ELSE [s EXCEPT !.start = Head(s.cp).start, !.id = Head(s.cp).id]

\* jbd_journal_purge_cp_trans(.., FALSE, FALSE).
PurgeFinished(s) ==
  LET n == CHOOSE k \in 0 .. Len(s.cp) :
             /\ \A i \in 1 .. k : Finished(s.cp[i])
             /\ k < Len(s.cp) => ~Finished(s.cp[k + 1])
  IN  StartAtHead(FoldLeft(LAMBDA a, i : DropHead(a), s, SubSeq(s.cp, 1, n)))

\* jbd_trans_end_write for one jbd_buf, after the entries before it: the buffer is
\* counted, and a finished transaction at the head of the queue leaves it.
Count(s, t) ==
  [s EXCEPT !.cp = [i \in DOMAIN @ |-> IF @[i].id = t THEN [@[i] EXCEPT !.written = @ + 1]
                                                     ELSE @[i]]]
LeaveQueue(s, t, first) ==
  IF Finished(TransOf(s, t)) /\ first THEN WriteSb(PurgeFinished(DropHead(s))) ELSE s
CountWritten(s, t, first) == LeaveQueue(Count(s, t), t, first)

IsFirst(s, t) == s.cp # <<>> /\ Head(s.cp).id = t

\* Mutant of EndWrite: the entries of older transactions leave uncounted.
EndWriteUncounted(s, b, t) ==
  CountWritten([s EXCEPT !.queue[b] = IF s.owner[b] = t THEN <<>>
                                      ELSE SelectSeq(@, LAMBDA e : e.t # t),
                         !.hook[b] = NoTrans], t, IsFirst(s, t))

Unhook(s, b, t) == IF s.owner[b] = t THEN [s EXCEPT !.hook[b] = NoTrans] ELSE s

\* jbd_trans_end_write(t's jbd_buf of b).  The callback of the record's own
\* transaction ends the entries of the older ones first; whether t is the first
\* of the checkpoint queue was decided before them.
EndWrite(s, b, t) ==
  LET mine  == s.owner[b] = t
      left  == SelectSeq(s.queue[b], LAMBDA e : e.t # t)
      older == IF mine THEN left ELSE <<>>
      ended == FoldLeft(LAMBDA a, e : CountWritten(a, e.t, IsFirst(a, e.t)),
                        [s EXCEPT !.queue[b] = IF mine THEN <<>> ELSE left], older)
  IN  CountWritten(Unhook(ended, b, t), t, IsFirst(s, t))

\* ext4_block_flush_buf.
CallBack(s, b) == IF s.hook[b] = NoTrans THEN s ELSE EndWrite(s, b, s.hook[b])
FlushBuf(s, b) ==
  IF ~s.dirty[b] THEN s
  ELSE CallBack([Send(s, Home(b, s.val[b])) EXCEPT !.dirty[b] = FALSE], b)

\* Mutant of FlushTrans: only buffers are flushed, no copies in the log.
FlushTransBuffers(s, x) ==
  FoldLeft(LAMBDA a, b : IF a.valid[b] /\ a.owner[b] = x.id THEN FlushBuf(a, b) ELSE a,
           s, x.bufs)

\* jbd_journal_flush_trans: a block that a later transaction has modified, or
\* that the cache has lost, is brought home from its copy in the log.
FlushTrans(s, x) ==
  LET one(a, b) ==
        IF x.id \notin Entries(a, b) THEN a
        ELSE IF a.valid[b] /\ a.owner[b] = x.id THEN FlushBuf(a, b)
        ELSE LET e == SelectSeq(a.queue[b], LAMBDA y : y.t = x.id)[1]
             IN  EndWrite(Send(a, Home(b, dev.log[e.pos].val)), b, x.id)
  IN  FoldLeft(one, s, x.bufs)

\* One round of jbd_journal_purge_cp_trans(.., TRUE, ..).
PurgeOnce(s) ==
  IF s.cp = <<>> THEN s
  ELSE IF Finished(Head(s.cp)) THEN DropHead(s)
  ELSE FlushTrans(s, Head(s.cp))

-----------------------------------------------------------------------------
(* Committing.  tx is the running transaction; it becomes the id allocId.  *)

\* The start the device has, once the writes under way are done.
SbStart(s) ==
  LET sbs == SelectSeq(s.w, LAMBDA x : x.to = "sb")
  IN  IF sbs = <<>> THEN dev.sb.start ELSE Last(sbs).at

\* jbd_journal_alloc_block; the block it returns is in the field at.
TakeBlock(s) ==
  [s EXCEPT !.last = WrapLog(@ + 1), !.tx.alloc = @ + 1, !.at = s.last,
            !.tx.start = IF @ = 0 THEN s.last ELSE @,
            !.lag = @ \/ (s.last = SbStart(s) /\ s.cp # <<>>)]
MakeRoom(s) == IF s.last = s.start THEN PurgeOnce(s) ELSE s
AssertRoom(s) == [s EXCEPT !.stuck = @ \/ s.last = s.start]
AllocBlock(s) == AssertRoom(MakeRoom(TakeBlock(s)))

\* Mutant of RollBack: the block only goes back to the older transaction.
RollBackOwner(s, b, e) == [s EXCEPT !.owner[b] = e.t]

\* jbd_trans_finish_callback(.., abort, revoke) for a block whose last older
\* entry is e: the copy in the log comes back into the buffer.
RollBack(s, b, e) ==
  [s EXCEPT !.val[b] = dev.log[e.pos].val, !.valid[b] = TRUE, !.dirty[b] = TRUE,
            !.owner[b] = e.t, !.hook[b] = e.t]

\* ext4_bcache_invalidate_buf.
Invalidate(s, b) ==
  [s EXCEPT !.valid[b] = FALSE, !.dirty[b] = FALSE, !.hook[b] = NoTrans, !.val[b] = 0]

\* A jbd_buf leaves the transaction before it is logged.
Unlog(s, b, revoke) ==
  LET q == Front(s.queue[b])
      a == [s EXCEPT !.queue[b] = q, !.hook[b] = NoTrans]
  IN  IF s.owner[b] # s.tx.id \/ q = <<>> THEN a
      ELSE IF revoke THEN [a EXCEPT !.owner[b] = Last(q).t]
      ELSE RollBack(a, b, Last(q))

\* The first loops of jbd_journal_prepare: buffers that are not dirty any more.
Forget(s) ==
  LET clean(b) == ~s.dirty[b]
      free(a, b) == IF a.owner[b] = s.tx.id THEN [a EXCEPT !.owner[b] = NoTrans] ELSE a
      one(a, b) == free(Unlog(a, b, b \in s.tx.revoked), b)
      left == SelectSeq(s.tx.bufs, LAMBDA b : ~clean(b))
  IN  [FoldLeft(one, s, SelectSeq(s.tx.bufs, clean)) EXCEPT !.tx.bufs = left,
                                                            !.tx.data = Len(left)]

\* One jbd_buf of jbd_journal_prepare: the block of tags is allocated before the
\* copies it describes and written when it is full, or after the last of them.
WriteDescriptor(s) ==
  IF s.tags = <<>> THEN s
  ELSE [Send(s, Log(s.desc, Rec("desc", s.tx.id, s.tags))) EXCEPT !.tags = <<>>]

StartDescriptor(s) == [s EXCEPT !.desc = s.at]
WithDescriptor(s) == IF s.tags = <<>> THEN StartDescriptor(AllocBlock(s)) ELSE s
PutCopy(s, b) ==
  [Send(s, Log(s.at, Copy(s.val[b])))
     EXCEPT !.tags = Append(@, b), !.queue[b] = [@ EXCEPT ![Len(@)].pos = s.at]]
LogCopy(s, b) ==
  LET full == Len(s.tags) = TagsPerBlock
  IN  PutCopy(AllocBlock(WithDescriptor(IF full THEN WriteDescriptor(s) ELSE s)), b)

LogCopies(s) == FoldLeft(LogCopy, s, s.tx.bufs)
Prepare(s) == WriteDescriptor(LogCopies(Forget(s)))

\* jbd_journal_prepare_revoke.
PutRevoke(s) == Send(s, Log(s.at, Rec("revoke", s.tx.id, SetToSeq(s.tx.revoked))))
PrepareRevoke(s) == IF s.tx.revoked = {} THEN s ELSE PutRevoke(AllocBlock(s))

\* jbd_trans_write_commit_block.
PutCommit(s) == Send(s, Log(s.at, Rec("commit", s.tx.id, <<>>)))
WriteCommitBlock(s) == [PutCommit(AllocBlock(s)) EXCEPT !.allocId = NextId(@)]

\* "Complete the checkpoint of buffers which are revoked."
CompleteRevoked(s) ==
  LET one(a, b) ==
        IF a.queue[b] = <<>> THEN a ELSE EndWrite(a, b, Last(a.queue[b]).t)
  IN  FoldLeft(one, s, SetToSeq(s.tx.revoked))

\* The transaction joins the checkpoint queue.
Queue(s) ==
  LET x == [id |-> s.tx.id, start |-> s.tx.start, alloc |-> s.tx.alloc,
            data |-> s.tx.data, written |-> 0, bufs |-> s.tx.bufs]
      a == [s EXCEPT !.tx = NotRunning, !.at = 0, !.desc = 0]
  IN  IF s.cp # <<>> THEN [a EXCEPT !.cp = Append(@, x)]
      ELSE IF x.data = 0
      THEN [Disown(a, x.id) EXCEPT !.start = AfterTrans(x), !.id = NextId(x.id)]
      ELSE WriteSb([a EXCEPT !.start = x.start, !.id = x.id, !.cp = <<x>>])

\* __jbd_journal_commit_trans.
FinishCommit(s) ==
  IF s.tx.bufs = <<>> /\ s.tx.revoked = {}
  THEN [Disown(s, s.tx.id) EXCEPT !.tx = NotRunning]
  ELSE Queue(CompleteRevoked(WriteCommitBlock(s)))
CommitTrans(s) == FinishCommit(PrepareRevoke(Prepare(s)))

\* jbd_journal_free_trans(.., TRUE).
AbortTrans(s) ==
  LET one(a, b) ==
        Unlog(Invalidate(a, b), b, FALSE)
      d == FoldLeft(one, s, s.tx.bufs)
  IN  [Disown(d, s.tx.id) EXCEPT !.tx = NotRunning]

-----------------------------------------------------------------------------
(* Replay.                                                                 *)

\* jbd_iterate_log, ACTION_SCAN: the records met from sb.start on and the id
\* expected after them.  No step of it needs more than MaxLen records.
Scan(d) ==
  LET step(a, i) ==
        LET r == d.log[a.pos]
            p == WrapLog(a.pos + 1 + (IF r.kind = "desc" THEN Len(r.list) ELSE 0))
        IN  IF a.end \/ r.kind \notin {"desc", "revoke", "commit"} \/ r.id # a.id
            THEN [a EXCEPT !.end = TRUE]
            ELSE [pos |-> p, end |-> p = d.sb.start,
                  id  |-> IF r.kind = "commit" THEN NextId(a.id) ELSE a.id,
                  cnt |-> IF r.kind = "commit" THEN a.cnt + 1 ELSE a.cnt,
                  met |-> Append(a.met, a.pos)]
  IN  FoldLeft(step, [pos |-> d.sb.start, id |-> d.sb.seq, cnt |-> 0,
                      end |-> d.sb.start = 0, met |-> <<>>],
               [i \in 1 .. MaxLen |-> i])

LastIdOf(d, a) == IF TransIdDiff(a.id, d.sb.seq) > 0 THEN (a.id - 1) % IdMod ELSE a.id
LastId(d) == LastIdOf(d, Scan(d))

\* The records the second and third pass visit.
Valid(d) ==
  LET a    == Scan(d)
      last == LastIdOf(d, a)
  IN  IF a.cnt = 0 THEN <<>>
      ELSE SelectSeq(a.met, LAMBDA p : TransIdDiff(d.log[p].id, last) <= 0)

\* jbd_build_revoke_tree over the records v: the last transaction revoking b.
RevokedBy(d, v, b) ==
  LET rs == SelectSeq(v, LAMBDA p : d.log[p].kind = "revoke" /\ Contains(d.log[p].list, b))
  IN  IF rs = <<>> THEN NoTrans ELSE d.log[Last(rs)].id

\* Mutant of SkipTag: revokes are not looked at.
SkipTagNever(id, revoke) == FALSE

\* jbd_replay_block_tags skips a copy the revoke is not older than.
SkipTag(id, revoke) == revoke # NoTrans /\ TransIdDiff(id, revoke) <= 0

\* The writes of ACTION_RECOVER.
Replay(d) ==
  LET v == Valid(d)
      tags(p) ==
        LET r == d.log[p]
        IN  FlattenSeq([i \in DOMAIN r.list |->
              IF SkipTag(r.id, RevokedBy(d, v, r.list[i])) THEN <<>>
              ELSE <<Home(r.list[i], d.log[WrapLog(p + i)].val)>>])
  IN  FlattenSeq([i \in DOMAIN v |-> IF d.log[v[i]].kind = "desc" THEN tags(v[i]) ELSE <<>>])

\* One device write.
Apply(d, x) ==
  CASE x.to \in {"home", "file"} -> [d EXCEPT !.disk[x.at] = x.what.val]
    [] x.to = "log" -> [d EXCEPT !.log[x.at] = x.what]
    [] x.to = "sb"  -> [d EXCEPT !.sb = [start |-> x.at, seq |-> x.what.id]]

Recovered(d) == FoldLeft(Apply, d, Replay(d)).disk

-----------------------------------------------------------------------------
(* The session.                                                            *)

Idle(s) == s.w = <<>> /\ ~s.stuck

Session(start, id, w) ==
  [start |-> start, last |-> start, id |-> id, allocId |-> id,
   cp |-> <<>>, tx |-> NotRunning, w |-> w, at |-> 0, desc |-> 0, tags |-> <<>>,
   queue |-> [b \in Block |-> <<>>], owner |-> [b \in Block |-> NoTrans],
   hook |-> [b \in Block |-> NoTrans], val |-> [b \in Block |-> 0],
   valid |-> [b \in Block |-> FALSE], dirty |-> [b \in Block |-> FALSE],
   stuck |-> FALSE, lag |-> FALSE]

NoSession(w) == Session(0, 0, w)

Init ==
  /\ mode = "down"
  /\ LET v == CHOOSE v \in Value : TRUE IN
       /\ dev = [disk |-> [b \in Block |-> v], log |-> [p \in Pos |-> None(v)],
                 sb |-> [start |-> 0, seq |-> FirstSeq]]
       /\ work = [role |-> [b \in Block |-> "meta"], val |-> [b \in Block |-> v],
                  freed |-> {}]
  /\ kept = work
  /\ jn = NoSession(<<>>)
  /\ slips = {}
  /\ spent = [sessions |-> 0, trans |-> 0, crashes |-> 0, aborts |-> 0, ops |-> 0]

\* The next write of the call under way reaches the device.  The commit block
\* is the promise that the transaction survives; a file block in use is
\* overwritten in place.
DeviceWrite ==
  LET x == Head(jn.w)
  IN  /\ jn.w # <<>>
      /\ dev' = Apply(dev, x)
      /\ jn' = [jn EXCEPT !.w = Tail(@)]
      /\ kept' = IF x.to = "log" /\ x.what.kind = "commit" THEN work
                 ELSE IF x.to = "file" /\ kept.role[x.at] = "file"
                 THEN [kept EXCEPT !.val[x.at] = x.what.val]
                 ELSE kept
      /\ UNCHANGED <<mode, work, slips, spent>>

Crash ==
  /\ mode # "down" \/ jn.w # <<>>
  /\ spent.crashes < MaxCrashes
  /\ spent' = [spent EXCEPT !.crashes = @ + 1]
  /\ mode' = "down"
  /\ jn' = NoSession(<<>>)
  /\ work' = kept
  /\ UNCHANGED <<dev, kept, slips>>

\* jbd_recover: the replay, then the super block of an empty log.
Recover ==
  /\ mode = "down" /\ Idle(jn)
  /\ dev.sb.start # 0
  /\ jn' = [jn EXCEPT !.w = Append(Replay(dev), Sb(0, LastId(dev)))]
  /\ UNCHANGED <<mode, dev, work, kept, slips, spent>>

\* A committed transaction the next session would take for one of its own.
LeftOver(id) ==
  \E p \in Pos : dev.log[p].kind = "commit" /\ TransIdDiff(dev.log[p].id, id) >= 0

\* jbd_journal_start.
Start ==
  LET id == NextId(dev.sb.seq)
  IN  /\ mode = "down" /\ Idle(jn)
      /\ dev.sb.start = 0
      /\ spent.trans < MaxTrans /\ spent.sessions < MaxSessions
      /\ spent' = [spent EXCEPT !.sessions = @ + 1]
      /\ mode' = "up"
      /\ jn' = Session(First, id, <<Sb(First, id)>>)
      /\ slips' = slips \cup (IF LeftOver(id) THEN {"stale"} ELSE {})
      /\ UNCHANGED <<dev, work, kept>>

Running == jn.tx # NotRunning

\* __ext4_trans_start.
TransStart ==
  /\ mode = "up" /\ Idle(jn) /\ ~Running
  /\ spent.trans < MaxTrans
  /\ spent' = [spent EXCEPT !.trans = @ + 1]
  /\ jn' = [jn EXCEPT !.tx = [id |-> jn.allocId, start |-> 0, alloc |-> 0, data |-> 0,
                              bufs |-> <<>>, revoked |-> {}]]
  /\ UNCHANGED <<mode, dev, work, kept, slips>>

\* jbd_trans_set_block_dirty.
SetBlockDirty(s, b) ==
  IF s.hook[b] = s.tx.id THEN s
  ELSE [s EXCEPT !.queue[b] = Append(@, [t |-> s.tx.id, pos |-> 0]),
                 !.owner[b] = s.tx.id, !.hook[b] = s.tx.id, !.dirty[b] = TRUE,
                 !.tx.data = @ + 1, !.tx.bufs = <<b>> \o @,
                 !.tx.revoked = @ \ {b}]

CountOp == spent.ops < MaxOps /\ spent' = [spent EXCEPT !.ops = @ + 1]

\* An operation of the file system modifies the metadata block b, or takes a
\* free block for metadata.
Modify(b, v) ==
  /\ mode = "up" /\ Idle(jn) /\ Running
  /\ work.role[b] = "meta" \/ (work.role[b] = "free" /\ b \notin work.freed)
  /\ work.role[b] = "meta" => work.val[b] # v
  /\ jn' = SetBlockDirty([jn EXCEPT !.val[b] = v, !.valid[b] = TRUE], b)
  /\ work' = [work EXCEPT !.role[b] = "meta", !.val[b] = v]
  /\ CountOp
  /\ UNCHANGED <<mode, dev, kept, slips>>

\* ext4_block_get of a metadata block the cache does not hold.
Read(b) ==
  /\ mode = "up" /\ Idle(jn)
  /\ work.role[b] = "meta" /\ ~jn.valid[b]
  /\ jn' = [jn EXCEPT !.valid[b] = TRUE, !.val[b] = dev.disk[b]]
  /\ CountOp
  /\ UNCHANGED <<mode, dev, work, kept, slips>>

\* jbd_trans_try_revoke_block.
MustRevoke(s, b) ==
  /\ s.owner[b] # NoTrans
  /\ s.owner[b] = s.tx.id => Len(s.queue[b]) > 1

\* A copy of b that a replay would still find.
StillLogged(s, b) == \E i \in DOMAIN s.cp : Contains(s.cp[i].bufs, b)

\* ext4_balloc_free_blocks: revoke, then invalidate the buffer.
Free(b) ==
  /\ mode = "up" /\ Idle(jn) /\ Running
  /\ work.role[b] # "free"
  /\ jn' = Invalidate([jn EXCEPT !.tx.revoked =
                         IF MustRevoke(jn, b) THEN @ \cup {b} ELSE @], b)
  /\ work' = [work EXCEPT !.role[b] = "free", !.freed = @ \cup {b}]
  /\ slips' = slips \cup
       (IF StillLogged(jn, b) /\ ~MustRevoke(jn, b) THEN {"unrevoked"} ELSE {})
  /\ CountOp
  /\ UNCHANGED <<mode, dev, kept>>

\* ext4_fwrite: the data of a file go to the device past cache and journal.
FileWrite(b, v) ==
  /\ mode = "up" /\ Idle(jn) /\ Running
  /\ work.role[b] # "meta" /\ b \notin work.freed
  /\ CountOp
  /\ jn' = Send(jn, File(b, v))
  /\ work' = [work EXCEPT !.role[b] = "file", !.val[b] = v]
  /\ UNCHANGED <<mode, dev, kept, slips>>

\* The cache writes a dirty buffer that nobody holds: ext4_cache_flush, a buffer
\* evicted, or the last reference dropped without write-back.
Flush(b) ==
  /\ mode = "up" /\ Idle(jn)
  /\ jn.dirty[b] /\ ~(Running /\ jn.tx.id \in Entries(jn, b))
  /\ jn' = FlushBuf(jn, b)
  /\ UNCHANGED <<mode, dev, work, kept, slips, spent>>

\* __ext4_trans_stop.  A transaction that has nothing to log holds no block the
\* journal knows of, so there is nothing a replay could undo.
Commit ==
  /\ mode = "up" /\ Idle(jn) /\ Running
  /\ jn' = CommitTrans(jn)
  /\ work' = [work EXCEPT !.freed = {}]
  /\ kept' = IF jn'.allocId = jn.allocId THEN work' ELSE kept
  /\ slips' = slips \cup (IF jn'.lag THEN {"lag"} ELSE {})
  /\ UNCHANGED <<mode, dev, spent>>

\* __ext4_trans_abort.
Abort ==
  /\ mode = "up" /\ Idle(jn) /\ Running
  /\ spent.aborts < MaxAborts
  /\ spent' = [spent EXCEPT !.aborts = @ + 1]
  /\ jn' = AbortTrans(jn)
  /\ work' = kept
  /\ slips' = slips \cup
       (IF \E b \in work.freed : jn.queue[b] # <<>> /\ ~Contains(jn.tx.bufs, b)
        THEN {"dropped"} ELSE {})
  /\ UNCHANGED <<mode, dev, kept>>

\* jbd_journal_stop: the checkpoint queue is flushed, then the log is closed.  A
\* round of the loop that changes nothing is repeated for ever.
Stop ==
  /\ mode = "up" /\ Idle(jn) /\ ~Running
  /\ mode' = "stop"
  /\ UNCHANGED <<dev, jn, work, kept, slips, spent>>

Looping(s) == IF s = jn THEN [s EXCEPT !.stuck = TRUE] ELSE s
StopPurge ==
  /\ mode = "stop" /\ Idle(jn)
  /\ jn.cp # <<>>
  /\ jn' = Looping(PurgeOnce(jn))
  /\ UNCHANGED <<mode, dev, work, kept, slips, spent>>

StopClose ==
  /\ mode = "stop" /\ Idle(jn)
  /\ jn.cp = <<>>
  /\ mode' = "down"
  /\ jn' = NoSession(<<Sb(0, 0)>>)
  /\ UNCHANGED <<dev, work, kept, slips, spent>>

\* The bound is reached, or the code is stuck.
Terminated ==
  /\ jn.w = <<>>
  /\ \/ mode = "down" /\ dev.sb.start = 0
        /\ (spent.trans = MaxTrans \/ spent.sessions = MaxSessions)
     \/ jn.stuck
  /\ UNCHANGED vars

Next ==
  \/ DeviceWrite \/ Crash \/ Recover \/ Start \/ TransStart
  \/ \E b \in Block, v \in Value : Modify(b, v) \/ FileWrite(b, v)
  \/ \E b \in Block : Read(b) \/ Free(b) \/ Flush(b)
  \/ Commit \/ Abort \/ Stop \/ StopPurge \/ StopClose
  \/ Terminated

Spec == Init /\ [][Next]_vars

-----------------------------------------------------------------------------
(* Properties.  slips names the departures that the code makes from its own*)
(* protocol, found with these properties:                                  *)
(*   stale     a session starts with ids the log still holds from an older *)
(*             one, because jbd_journal_stop leaves sequence 0;            *)
(*   unrevoked a block is freed without a revoke while the log holds a     *)
(*             copy of it, because its record belongs to the transaction;  *)
(*   lag       log blocks are handed out again that the super block on the *)
(*             device still names as the start of the log;                 *)
(*   dropped   a transaction that freed a block not yet checkpointed is    *)
(*             aborted, which does not bring the buffer back.              *)
(* The properties hold of every behaviour without one of them.             *)

Role == {"meta", "file", "free"}
FsState == [role : [Block -> Role], val : [Block -> Value], freed : SUBSET Block]

\* The fields of the session stay in their ranges.
TypeOK ==
  /\ mode \in {"down", "up", "stop"}
  /\ dev.disk \in [Block -> Value]
  /\ dev.sb.start \in Pos \cup {0} /\ dev.sb.seq \in Id
  /\ work \in FsState /\ kept \in FsState
  /\ jn.start \in Pos \cup {0} /\ jn.last \in Pos \cup {0}
  /\ jn.id \in Id /\ jn.allocId \in Id
  /\ \A i \in DOMAIN jn.cp : jn.cp[i].start \in Pos /\ jn.cp[i].written <= jn.cp[i].data
  /\ slips \subseteq {"stale", "unrevoked", "lag", "dropped"}

\* Whenever the power fails, also in the middle of a commit, a checkpoint or
\* another recovery, replaying the log (jbd_recover) restores what the last
\* committed transaction left in every block in use.
Restores ==
  LET disk == Recovered(dev)
  IN  \A b \in Block : kept.role[b] # "free" => disk[b] = kept.val[b]
RecoveryRestores == slips = {} => Restores

\* A metadata block reads as the operations done so far left it: from the cache,
\* or from the device when the cache does not hold it.  An aborted transaction
\* (jbd_journal_free_trans) takes all its changes back.
ReadsBack ==
  (slips = {} /\ mode = "up" /\ Idle(jn)) =>
    \A b \in Block : work.role[b] = "meta" =>
      work.val[b] = (IF jn.valid[b] THEN jn.val[b] ELSE dev.disk[b])

\* The counters that decide when a transaction leaves the checkpoint queue
\* (data_cnt, written_cnt) agree with the buffers still on their way home, and
\* the copy of each such buffer is still in the log, where a checkpoint or an
\* abort will look for it.
CheckpointExact ==
  (slips = {} /\ Idle(jn)) => \A i \in DOMAIN jn.cp :
    LET x == jn.cp[i]
        open == {b \in Block : x.id \in Entries(jn, b)}
    IN  /\ x.data - x.written = Cardinality(open)
        /\ \A b \in open : \E e \in ToSet(jn.queue[b]) :
              e.t = x.id /\ dev.log[e.pos].kind = "data"

\* A full log makes room by checkpointing one transaction, so that the assertion
\* of jbd_journal_alloc_block holds, and the loop of jbd_journal_stop that
\* empties the checkpoint queue makes progress in every round.
NeverStuck == slips = {} => ~jn.stuck

\* The comment of jbd_journal_start says the ids of a session begin after those
\* of the previous one "to invalidate any stale records": a recovery then never
\* replays a transaction of an older session.
StaleRecordsInvalid == slips \subseteq {"stale"} => Restores

\* The comment of jbd_trans_try_revoke_block says a block that "still remains in
\* an transaction on checkpoint queue" is revoked: a recovery then never brings
\* an old copy of a freed block back.
FreedBlocksRevoked == slips \subseteq {"unrevoked"} => Restores

\* The comment of jbd_trans_end_write says it updates "the start block of the
\* journal when all the contents in a transaction reach the disk": log blocks in
\* use again are then never where a recovery starts.
StartFollowsCheckpoint == slips \subseteq {"lag"} => Restores

=============================================================================
