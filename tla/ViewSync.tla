------------------------------ MODULE ViewSync ------------------------------
(***************************************************************************)
(* A router's mirror of the location view, and the stream that feeds it.   *)
(*                                                                         *)
(* The control plane (rust/controlplane/src/lib.rs) commits each write     *)
(* handler's batch under the authority's write lock and broadcasts it.     *)
(* SubscribeView starts a task per subscriber: it subscribes to the        *)
(* broadcast, reads a snapshot or a replay under the read lock, sends      *)
(* that, and then forwards broadcast updates, dropping those it has        *)
(* already covered.  The router (go/router/viewsync.go, mirror.go) applies *)
(* what arrives and reconnects with the last number it applied.            *)
(*                                                                         *)
(* Subscribers share nothing but the authority and the log, which they     *)
(* only read, so one subscriber stands for any number of them.             *)
(***************************************************************************)
EXTENDS ViewLog, FiniteSets, SequencesExt

CONSTANTS
  RingCap,      \* capacity of the broadcast channel (256 in the code)
  ChanCap,      \* capacity of the task's output channel (64 in the code)
  MaxSeq,       \* bound: commits per run of the control plane
  MaxEpoch,     \* bound: how often the authority is replaced
  MaxBreaks,    \* bound: how often the network breaks the stream
  Causes        \* which replacements of the authority the instance allows

(* The ways the authority's whole content is replaced: a restore that       *)
(* succeeds, one that fails half way, a restart of the process.             *)
AllCauses == {"restore", "failed restore", "restart"}

ASSUME ChannelAssumption == RingCap \in Nat \ {0} /\ ChanCap \in Nat \ {0}
ASSUME BoundAssumption == MaxSeq \in Nat /\ MaxEpoch \in Nat /\ MaxBreaks \in Nat
ASSUME CausesAssumption == Causes \subseteq AllCauses

VARIABLES
  auth,      \* the content of the authority
  pending,   \* blocks with an event in pending_view_events
  conn,      \* the stream: "idle", "subscribing", "live" or "broken"
  rx,        \* broadcast updates the task has not received yet
  lagged,    \* the broadcast channel has overwritten some of them
  last,      \* the task's dedup watermark
  todo,      \* updates the task is in the middle of sending
  chan,      \* updates on their way to the router
  mLast,     \* ViewMirror.lastSeq
  mBlocks,   \* ViewMirror.blocks
  breaks,    \* how many network failures have happened
  epoch,     \* history: how often the authority was replaced
  mEpoch,    \* history: the epoch of the last snapshot the mirror applied
  skipped    \* history: the subscriber was denied a snapshot it needed

authVars   == <<auth, pending, epoch>>
taskVars   == <<rx, lagged, last, todo>>
mirrorVars == <<mLast, mBlocks, mEpoch>>
vars       == <<logVars, authVars, conn, taskVars, chan, mirrorVars, breaks, skipped>>

(* An update on the wire; "ep" is the history part.  Number 0 marks a       *)
(* snapshot, an empty batch with another number an anchor.                  *)
Message == [seq : Nat, events : Batch, ep : Nat]

Tagged(u) == [seq |-> u.seq, events |-> u.events, ep |-> epoch]

Snapshot(c, e) == [seq |-> 0, events |-> [b \in Present(c) |-> c[b]], ep |-> e]

(* anchor_update: nothing at all when the number is 0. *)
Anchor(n, e) ==
  IF n > 0 THEN <<[seq |-> n, events |-> <<>>, ep |-> e]>> ELSE <<>>

SnapshotWithAnchor == <<Snapshot(auth, epoch)>> \o Anchor(LastSeq, epoch)

Subscribed == conn \in {"subscribing", "live"}

(* view_tx.send of a sequence of updates: a full channel overwrites the     *)
(* oldest ones, which the receiver will learn.                              *)
Broadcast(msgs) ==
  LET all == rx \o msgs
  IN  IF ~Subscribed
        THEN UNCHANGED <<rx, lagged>>
        ELSE /\ rx' = IF Len(all) > RingCap
                        THEN SubSeq(all, Len(all) - RingCap + 1, Len(all))
                        ELSE all
             /\ lagged' = (lagged \/ Len(all) > RingCap)

-----------------------------------------------------------------------------
(* The mirror: ViewMirror.Apply on m = [last, blocks, ep].                   *)

Overlay(c, evs) == [b \in Blocks |-> IF b \in DOMAIN evs THEN evs[b] ELSE c[b]]

IsGap(m, u) ==
  /\ u.seq # 0
  /\ DOMAIN u.events # {}
  /\ u.seq > m.last + 1

Apply(m, u) ==
  CASE u.seq = 0 ->
         [last |-> 0, blocks |-> Overlay(NoContent, u.events), ep |-> u.ep]
    [] u.seq # 0 /\ DOMAIN u.events = {} ->
         [m EXCEPT !.last = IF u.seq > @ THEN u.seq ELSE @]
    [] u.seq # 0 /\ DOMAIN u.events # {} /\ u.seq = m.last + 1 ->
         [m EXCEPT !.last = u.seq, !.blocks = Overlay(@, u.events)]
    [] OTHER -> m

Mirror == [last |-> mLast, blocks |-> mBlocks, ep |-> mEpoch]

-----------------------------------------------------------------------------

Init ==
  /\ LogInit
  /\ auth = NoContent
  /\ pending = {}
  /\ epoch = 0
  /\ conn = "idle"
  /\ rx = <<>> /\ lagged = FALSE /\ last = 0 /\ todo = <<>>
  /\ chan = <<>>
  /\ mLast = 0 /\ mBlocks = NoContent /\ mEpoch = 0
  /\ breaks = 0
  /\ skipped = FALSE

(* A write handler (register, deregister, reconcile, discard): it changes   *)
(* what it changes, commits the batch with any events still pending from a  *)
(* restore, and broadcasts it, all under the write lock.                    *)
Write(evs) ==
  /\ nextSeq <= MaxSeq
  /\ \A b \in DOMAIN evs : evs[b] = NoPlace => auth[b] # NoPlace
  /\ auth' = Overlay(auth, evs)
  /\ LET batch == [b \in DOMAIN evs \cup pending |-> auth'[b]]
     IN  /\ LogCommit(batch)
         /\ Broadcast(<<Tagged(NewUpdate(batch))>>)
  /\ pending' = {}
  /\ UNCHANGED <<epoch, conn, last, todo, chan, mirrorVars, breaks, skipped>>

(* import_snapshot: everything is dropped and blocks are registered again,  *)
(* one by one, each leaving an event pending.                               *)
ImportSnapshot(c) ==
  /\ epoch < MaxEpoch
  /\ auth' = c
  /\ pending' = Present(c)
  /\ epoch' = epoch + 1
  /\ LogReset
  /\ UNCHANGED <<conn, last, todo, chan, mirrorVars, breaks>>

(* restore_checkpoint, all of the checkpoint imported. *)
Restore(c) ==
  /\ "restore" \in Causes
  /\ ImportSnapshot(c)
  /\ Broadcast(<<Snapshot(c, epoch')>> \o Anchor(LastSeq, epoch'))
  /\ skipped' = FALSE

(* restore_checkpoint, import_snapshot gives up part of the way: the        *)
(* handler answers with the error and sends nothing.                        *)
RestoreFails(c) ==
  /\ "failed restore" \in Causes
  /\ ImportSnapshot(c)
  /\ skipped' = Subscribed
  /\ UNCHANGED <<rx, lagged>>

(* The control plane process dies and comes back: the authority, the log    *)
(* and every subscriber task are gone; what was already sent may arrive.    *)
Restart ==
  /\ "restart" \in Causes
  /\ epoch < MaxEpoch
  /\ auth' = NoContent
  /\ pending' = {}
  /\ epoch' = epoch + 1
  /\ updates' = <<>> /\ nextSeq' = 1
  /\ conn' = CASE conn = "live" -> "broken"
               [] conn = "subscribing" -> "idle"
               [] OTHER -> conn
  /\ rx' = <<>> /\ lagged' = FALSE /\ last' = 0 /\ todo' = <<>>
  /\ skipped' = FALSE
  /\ UNCHANGED <<chan, mirrorVars, breaks>>

-----------------------------------------------------------------------------

(* A subscription now would be answered with a replay. *)
Resumes == mLast # 0 /\ CanReplay(mLast)

(* ... although the mirror's base is a snapshot of an authority that has    *)
(* been replaced since (history).                                           *)
CrossesEpochs == Resumes /\ mEpoch # epoch

(* The snapshots among the updates q; the last of them is of an authority   *)
(* that has been replaced since (history).                                  *)
Snapshots(q) == {i \in 1 .. Len(q) : q[i].seq = 0}
EndsStale(q) == Snapshots(q) # {} /\ q[Max(Snapshots(q))].ep # epoch

(* What the subscriber's task sends first. *)
Initial ==
  IF Resumes
    THEN [i \in DOMAIN ReplayAfter(mLast) |-> Tagged(ReplayAfter(mLast)[i])]
    ELSE SnapshotWithAnchor

(* viewSyncOnce calls SubscribeView; the handler subscribes to the          *)
(* broadcast before anything else.                                          *)
Connect ==
  /\ conn = "idle"
  /\ conn' = "subscribing"
  /\ rx' = <<>> /\ lagged' = FALSE
  /\ skipped' = FALSE
  /\ UNCHANGED <<logVars, authVars, last, todo, chan, mirrorVars, breaks>>

(* The handler takes the read lock and chooses between a replay from        *)
(* resume_from_seq = LastSeq() and a snapshot; then the task starts.        *)
ReadInitial ==
  /\ conn = "subscribing"
  /\ conn' = "live"
  /\ todo' = Initial
  /\ last' = CASE ~Resumes -> LastSeq
               [] Resumes /\ Initial = <<>> -> mLast
               [] Resumes /\ Initial # <<>> -> Initial[Len(Initial)].seq
  /\ skipped' = IF Snapshots(rx) = {} THEN CrossesEpochs ELSE EndsStale(rx)
  /\ UNCHANGED <<logVars, authVars, rx, lagged, chan, mirrorVars, breaks>>

(* tx.send: waits while the output channel is full. *)
Send ==
  /\ conn = "live"
  /\ todo # <<>>
  /\ Len(chan) < ChanCap
  /\ chan' = Append(chan, Head(todo))
  /\ todo' = Tail(todo)
  /\ UNCHANGED <<logVars, authVars, conn, rx, lagged, last, mirrorVars, breaks, skipped>>

Forwards_NoSnapshots(u) == u.seq > last

Forwards_OffByOne(u) == u.seq = 0 \/ u.seq > last + 1

(* The dedup filter of the forwarding loop. *)
Forwards(u) == u.seq = 0 \/ u.seq > last

(* rx.recv returned an update. *)
Forward ==
  /\ conn = "live"
  /\ todo = <<>>
  /\ ~lagged
  /\ rx # <<>>
  /\ rx' = Tail(rx)
  /\ IF Forwards(Head(rx))
       THEN last' = Head(rx).seq /\ todo' = <<Head(rx)>>
       ELSE UNCHANGED <<last, todo>>
  /\ UNCHANGED <<logVars, authVars, conn, lagged, chan, mirrorVars, breaks, skipped>>

(* rx.recv returned Lagged: resynchronise from the authority.  What is left *)
(* in the broadcast channel is still to be received.                        *)
Resync ==
  /\ conn = "live"
  /\ todo = <<>>
  /\ lagged
  /\ lagged' = FALSE
  /\ todo' = SnapshotWithAnchor
  /\ last' = LastSeq
  /\ skipped' = EndsStale(rx)
  /\ UNCHANGED <<logVars, authVars, conn, rx, chan, mirrorVars, breaks>>

(* stream.Recv and mirror.Apply.  On a gap the stream is given up and what  *)
(* was on its way is lost.                                                  *)
Recv ==
  /\ conn \in {"live", "broken"}
  /\ chan # <<>>
  /\ LET m == Apply(Mirror, Head(chan))
     IN  mLast' = m.last /\ mBlocks' = m.blocks /\ mEpoch' = m.ep
  /\ IF IsGap(Mirror, Head(chan))
       THEN /\ conn' = "idle"
            /\ chan' = <<>> /\ rx' = <<>> /\ lagged' = FALSE /\ todo' = <<>>
       ELSE chan' = Tail(chan) /\ UNCHANGED <<conn, rx, lagged, todo>>
  /\ UNCHANGED <<logVars, authVars, last, breaks, skipped>>

(* The router's side of the stream ends: RunViewSync will connect again. *)
Disconnect ==
  /\ conn' = "idle"
  /\ chan' = <<>> /\ rx' = <<>> /\ lagged' = FALSE /\ todo' = <<>>
  /\ skipped' = FALSE
  /\ UNCHANGED <<logVars, authVars, last, mirrorVars>>

(* The network breaks a stream at any moment. *)
Break ==
  /\ breaks < MaxBreaks
  /\ Subscribed
  /\ breaks' = breaks + 1
  /\ Disconnect

(* The stream of a control plane that is gone ends, with or without the     *)
(* updates that were still on their way.                                    *)
StreamEnd ==
  /\ conn = "broken"
  /\ UNCHANGED breaks
  /\ Disconnect

Next ==
  \/ \E evs \in Batch : DOMAIN evs # {} /\ Write(evs)
  \/ \E c \in Content : Restore(c)
  \/ \E c \in Content : RestoreFails(c)
  \/ Restart
  \/ Connect
  \/ ReadInitial
  \/ Send
  \/ Forward
  \/ Resync
  \/ Recv
  \/ Break
  \/ StreamEnd

Spec == Init /\ [][Next]_vars

(* The tasks and the router's loop keep running; writes, restores, restarts *)
(* and network failures need never happen.                                  *)
Fairness ==
  /\ WF_vars(Connect)
  /\ WF_vars(ReadInitial)
  /\ WF_vars(Send)
  /\ WF_vars(Forward)
  /\ WF_vars(Resync)
  /\ WF_vars(Recv)
  /\ WF_vars(StreamEnd)

FairSpec == Spec /\ Fairness

-----------------------------------------------------------------------------

(* Every variable has its type; the mirror is of no epoch yet to come. *)
TypeOK ==
  /\ updates \in Seq(Update) /\ nextSeq \in Nat \ {0}
  /\ auth \in Content /\ pending \subseteq Blocks
  /\ conn \in {"idle", "subscribing", "live", "broken"}
  /\ rx \in Seq(Message) /\ todo \in Seq(Message) /\ chan \in Seq(Message)
  /\ lagged \in BOOLEAN /\ last \in Nat
  /\ mLast \in Nat /\ mBlocks \in Content
  /\ breaks \in 0 .. MaxBreaks
  /\ epoch \in 0 .. MaxEpoch /\ mEpoch \in 0 .. epoch /\ skipped \in BOOLEAN

(* What the mirror becomes if the task sends "initial" and then forwards    *)
(* the updates q with the dedup watermark w.                                *)
Forwarded(m, initial, w, q) ==
  LET step(s, u) ==
        IF u.seq = 0 \/ u.seq > s.w
          THEN [m |-> Apply(s.m, u), w |-> u.seq]
          ELSE s
  IN  FoldLeft(step, [m |-> FoldLeft(Apply, m, initial), w |-> w], q).m

(* What the mirror becomes once the stream has run dry, if nothing else     *)
(* happens.  A stream that is down is first opened again.                   *)
Drained ==
  LET inFlight == IF conn = "live" THEN chan \o todo ELSE Initial
      watermark == IF conn = "live" THEN last ELSE LastSeq
  IN  IF lagged
        THEN Forwarded(Mirror, inFlight \o SnapshotWithAnchor, LastSeq, rx)
        ELSE Forwarded(Mirror, inFlight, watermark, rx)

(* Whatever has happened - commits between subscribing and reading the      *)
(* snapshot, a lagging receiver, a restore while connected, a broken stream *)
(* resumed from the replay buffer - the updates on their way are exactly    *)
(* those that take the mirror to the authority's content and number         *)
(* (subscribe_view, ViewMirror.Apply).  The exceptions are a restore that   *)
(* failed and a replay onto a base that has been replaced.                  *)
MirrorWillAgree ==
  ~skipped /\ (conn # "live" => ~CrossesEpochs) =>
    Drained.blocks = auth /\ Drained.last = LastSeq

(* An increment never skips a number when it reaches the mirror, so the     *)
(* gap branch of ViewMirror.Apply is a pure defence: a lagged receiver, a   *)
(* restore or a reconnect always brings a snapshot or a full replay first.  *)
NoGapReachesMirror == chan # <<>> => ~IsGap(Mirror, Head(chan))

(* What the stream brings to a mirror is enough: a replay is exactly what   *)
(* was missed, no gap shows, and in the end the contents are the same.      *)
StreamIsSound == MirrorWillAgree /\ NoGapReachesMirror /\ ReplayExact

CaughtUp ==
  /\ conn = "live"
  /\ rx = <<>> /\ todo = <<>> /\ chan = <<>>
  /\ ~lagged

(* A router that is connected and has received everything has the content   *)
(* of the authority; its mirror does not silently diverge (view.rs:185-187, *)
(* lib.rs:865-866 and lib.rs:248-249 each claim a case of this).            *)
CaughtUpAgrees == CaughtUp /\ pending = {} => mBlocks = auth

(* Once writes, restores and failures stop, the router is connected, has    *)
(* received everything and stays so; and its mirror has the authority's     *)
(* content and number, with the exceptions of MirrorWillAgree (RunViewSync  *)
(* reconnects for ever).                                                    *)
Converges ==
  <>[](CaughtUp /\ (~skipped => mBlocks = auth /\ mLast = LastSeq))
=============================================================================
