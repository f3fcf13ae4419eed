-------------------------- MODULE TaskEngineProofs --------------------------
(***************************************************************************)
(* The engine never runs one key twice at a time, never loses a place of   *)
(* its transfer gate and never calls a key unknown that it has given out,  *)
(* for any keys, any number of consumers, calls, places and receipts.      *)
(***************************************************************************)
EXTENDS TaskEngine, FiniteSetTheorems, TLAPS

(***************************************************************************)
(* The types the argument needs.                                           *)
(***************************************************************************)
Types ==
  /\ slot \in [Intents -> Records \cup {NoRecord}]
  /\ queue \in Seq(Records)
  /\ thread \in [Records -> {"idle", "checked", "claimed", "posted", "admitted", "returned"}]
  /\ keyOf \in [Records -> Intents]
  /\ queued \subseteq Records
  /\ cur \in [Consumers -> Records \cup {NoRecord}]
  /\ settling \in Records \cup {NoRecord}
  /\ sweep \subseteq Records

(***************************************************************************)
(* A record in the hands of the queue or of a consumer: it has passed      *)
(* _admit, it is in its slot, and _finish is not at work on it.            *)
(***************************************************************************)
Held(r) == r \in queued /\ slot[keyOf[r]] = r /\ r # settling

Owners ==
  /\ \A i \in 1 .. Len(queue) : Held(queue[i])
  /\ \A c \in Consumers : Busy(c) => Held(cur[c])
  /\ \A i, j \in 1 .. Len(queue) : queue[i] = queue[j] => i = j
  /\ \A c, d \in Consumers : Busy(c) /\ cur[c] = cur[d] => c = d
  /\ \A c \in Consumers, i \in 1 .. Len(queue) : queue[i] # cur[c]

(***************************************************************************)
(* Only admitted records are queued; as long as intents are accepted, one  *)
(* on its way to _admit keeps its slot; and whoever drains or sweeps has   *)
(* ended acceptance before.                                                *)
(***************************************************************************)
OnTheWay ==
  /\ \A r \in queued : thread[r] = "admitted"
  /\ accepting => \A i \in Records :
                    thread[i] \in {"claimed", "posted"} => slot[keyOf[i]] = i /\ i # settling
  /\ mode # "free" \/ shut # "no" => ~accepting
  /\ settling # NoRecord => slot[keyOf[settling]] = settling

IInv == Types /\ Owners /\ OnTheWay

-----------------------------------------------------------------------------
(* One key at a time *)

(* An engine that has just been created holds nothing. *)
LEMMA InitIInv == Init => IInv
<1> SUFFICES ASSUME Init PROVE IInv
  OBVIOUS
<1>1. Types
  BY DEF Init, Types
<1>2. Owners
  BY DEF Init, Owners, Busy
<1>3. OnTheWay
  BY DEF Init, OnTheWay
<1> QED
  BY <1>1, <1>2, <1>3 DEF IInv

(* _finish up to its last statement leaves the slots alone, and is at work  *)
(* on nothing but the record it was called for.                             *)
LEMMA FinishEffect ==
  ASSUME NEW r \in Records, NEW v, Finish(r, v)
  PROVE  /\ slot' = slot
         /\ settling' = settling \/ (settling' = r /\ slot[keyOf[r]] = r)
BY DEF Finish, tables

(* Owners survive a step that takes nothing from the queue and, at most,    *)
(* lets consumers go, when _finish begins on no record that is still held.  *)
LEMMA OwnersLetGo ==
  ASSUME Types, Owners,
         slot' = slot, keyOf' = keyOf, queued \subseteq queued', queue' = queue,
         cur' \in [Consumers -> Records \cup {NoRecord}],
         \A c \in Consumers : cur'[c] \in {cur[c], NoRecord},
         \/ settling' = settling
         \/ /\ \A i \in 1 .. Len(queue) : queue[i] # settling'
            /\ \A c \in Consumers : cur'[c] # NoRecord => cur'[c] # settling'
  PROVE  Owners'
<1>1. \A i \in 1 .. Len(queue') : Held(queue[i])'
  BY DEF Types, Owners, Held
<1>2. \A c \in Consumers : Busy(c)' => Held(cur[c])'
  BY DEF Types, Owners, Held, Busy
<1>3. \A c, d \in Consumers : Busy(c)' /\ cur'[c] = cur'[d] => c = d
  BY DEF Owners, Busy
<1>4. \A c \in Consumers, i \in 1 .. Len(queue') : queue'[i] # cur'[c]
  <2> SUFFICES ASSUME NEW c \in Consumers, NEW i \in 1 .. Len(queue)
               PROVE  queue[i] # cur'[c]
    OBVIOUS
  <2>1. queue[i] \in Records /\ queue[i] # cur[c]
    BY DEF Types, Owners
  <2> QED
    BY <2>1 DEF Records, NoRecord
<1> QED
  BY <1>1, <1>2, <1>3, <1>4 DEF Owners

(* Taking the head off the queue, for a consumer or to be failed: nobody    *)
(* else has it.                                                             *)
LEMMA HeadIsAlone ==
  ASSUME Types, Owners, queue # <<>>
  PROVE  /\ Head(queue) \in Records /\ Held(Head(queue))
         /\ Tail(queue) \in Seq(Records)
         /\ \A i \in 1 .. Len(Tail(queue)) :
              /\ i + 1 \in 1 .. Len(queue)
              /\ Tail(queue)[i] = queue[i + 1]
              /\ Tail(queue)[i] # Head(queue)
         /\ \A c \in Consumers : cur[c] # Head(queue)
<1>1. Len(queue) \in Nat \ {0} /\ Head(queue) = queue[1] /\ 1 \in 1 .. Len(queue)
  BY DEF Types
<1>2. Tail(queue) \in Seq(Records) /\ Len(Tail(queue)) = Len(queue) - 1
  BY DEF Types
<1>3. \A i \in 1 .. Len(Tail(queue)) :
         i + 1 \in 1 .. Len(queue) /\ Tail(queue)[i] = queue[i + 1]
  BY <1>1, <1>2 DEF Types
<1>4. \A i \in 1 .. Len(Tail(queue)) : Tail(queue)[i] # Head(queue)
  BY <1>1, <1>2, <1>3 DEF Owners
<1>5. Head(queue) \in Records /\ Held(Head(queue))
  BY <1>1 DEF Types, Owners
<1>6. \A c \in Consumers : cur[c] # Head(queue)
  BY <1>1 DEF Owners
<1> QED
  BY <1>2, <1>3, <1>4, <1>5, <1>6

(* A step of the event loop that begins _finish on r at most, and changes   *)
(* no thread: what is on its way keeps its slot, because r is queued or     *)
(* intents are no longer accepted.                                          *)
LEMMA OnTheWayKept ==
  ASSUME Types, OnTheWay,
         slot' = slot, keyOf' = keyOf, thread' = thread, queued' = queued,
         accepting' => accepting,
         mode' # "free" \/ shut' # "no" => ~accepting',
         NEW r \in Records,
         settling' = settling \/ (settling' = r /\ slot[keyOf[r]] = r),
         r \in queued \/ ~accepting'
  PROVE  OnTheWay'
<1>1. accepting' => \A i \in Records :
         thread[i] \in {"claimed", "posted"} => slot[keyOf[i]] = i /\ i # settling'
  BY DEF OnTheWay
<1>2. settling' # NoRecord => slot[keyOf[settling']] = settling'
  BY DEF OnTheWay
<1> QED
  BY <1>1, <1>2 DEF OnTheWay

(* A consumer lets its record go and _finish begins on it: succeed, fail,   *)
(* crash or cancellation.                                                   *)
LEMMA LetGo ==
  ASSUME IInv, NEW c \in Consumers, Busy(c), NEW v, Finish(cur[c], v),
         cur' = [cur EXCEPT ![c] = NoRecord],
         UNCHANGED <<recVars, sweep, queue>>,
         accepting' => accepting,
         mode' # "free" \/ shut' # "no" => ~accepting'
  PROVE  IInv'
<1> USE DEF IInv
<1>1. cur[c] \in Records /\ Held(cur[c])
  BY DEF Types, Owners, Busy
<1>2. /\ slot' = slot
      /\ settling' = settling \/ (settling' = cur[c] /\ slot[keyOf[cur[c]]] = cur[c])
  BY <1>1, FinishEffect
<1>3. Types'
  BY <1>1, <1>2 DEF Types, recVars
<1>4. \A i \in 1 .. Len(queue) : queue[i] # cur[c]
  BY DEF Owners
<1>5. \A d \in Consumers : cur'[d] # NoRecord => cur'[d] = cur[d] /\ cur[d] # cur[c]
  BY DEF Types, Owners, Busy
<1>6. \A d \in Consumers : cur'[d] \in {cur[d], NoRecord}
  BY DEF Types
<1>7. Owners'
  BY <1>2, <1>3, <1>4, <1>5, <1>6, OwnersLetGo DEF Types, recVars
<1>8. OnTheWay'
  BY <1>1, <1>2, OnTheWayKept DEF Held, recVars
<1> QED
  BY <1>3, <1>7, <1>8

(* The threads: the check, the claim and the post. *)
LEMMA ThreadStep ==
  ASSUME IInv, NEW i \in Records, SubmitCheck(i) \/ SubmitClaim(i) \/ SubmitPost(i)
  PROVE  IInv'
<1> USE DEF IInv
<1>1. CASE SubmitCheck(i)
  <2>1. Types'
    BY <1>1 DEF SubmitCheck, Types, tables, conVars, shutVars
  <2>2. Owners'
    BY <1>1 DEF SubmitCheck, Owners, Held, Busy, tables, conVars
  <2>3. OnTheWay'
    BY <1>1 DEF SubmitCheck, Types, OnTheWay, tables, shutVars
  <2> QED
    BY <2>1, <2>2, <2>3
<1>2. CASE SubmitPost(i)
  <2>1. Types'
    BY <1>2 DEF SubmitPost, Types, tables, conVars, shutVars
  <2>2. Owners'
    BY <1>2 DEF SubmitPost, Owners, Held, Busy, tables, conVars
  <2>3. OnTheWay'
    BY <1>2 DEF SubmitPost, Types, OnTheWay, tables, shutVars
  <2> QED
    BY <2>1, <2>2, <2>3
<1>3. CASE SubmitClaim(i)
  <2>1. Types'
    BY <1>3 DEF SubmitClaim, Types, conVars, shutVars
  <2>2. /\ keyOf' = keyOf /\ queued' = queued /\ queue' = queue /\ cur' = cur
        /\ settling' = settling /\ accepting' = accepting /\ mode' = mode /\ shut' = shut
    BY <1>3 DEF SubmitClaim, conVars, shutVars
  <2>3. ASSUME NEW r \in Records, slot[keyOf[r]] = r
        PROVE  slot'[keyOf[r]] = r
    BY <1>3, <2>3 DEF SubmitClaim, Claims, Types, Records, NoRecord
  <2>4. Owners'
    <3>1. \A r \in Records : Held(r) => Held(r)'
      BY <2>2, <2>3 DEF Held
    <3>2. /\ \A j \in 1 .. Len(queue) : queue[j] \in Records
          /\ \A c \in Consumers : Busy(c) => cur[c] \in Records
      BY DEF Types, Busy
    <3>3. \A c \in Consumers : Busy(c)' = Busy(c)
      BY <2>2 DEF Busy
    <3>4. \A j \in 1 .. Len(queue') : Held(queue[j])'
      BY <2>2, <3>1, <3>2 DEF Owners, Held
    <3>5. \A c \in Consumers : Busy(c)' => Held(cur[c])'
      BY <2>2, <3>1, <3>2, <3>3 DEF Owners, Held
    <3> QED
      BY <2>2, <3>3, <3>4, <3>5 DEF Owners
  <2>5. OnTheWay'
    <3>1. \A r \in queued : thread'[r] = "admitted"
      BY <1>3 DEF SubmitClaim, OnTheWay, Types
    <3>2. settling # NoRecord => slot'[keyOf[settling]] = settling
      BY <2>3 DEF OnTheWay, Types
    <3>3. ASSUME accepting, NEW r \in Records, thread'[r] \in {"claimed", "posted"}
          PROVE  slot'[keyOf[r]] = r /\ r # settling
      <4>1. CASE r # i
        <5>1. thread[r] \in {"claimed", "posted"}
          BY <1>3, <3>3, <4>1 DEF SubmitClaim, Types
        <5> QED
          BY <2>3, <3>3, <5>1 DEF OnTheWay
      <4>2. CASE r = i
        <5>1. slot[keyOf[i]] = NoRecord /\ slot'[keyOf[i]] = i
          BY <1>3, <3>3, <4>2 DEF SubmitClaim, Claims, Types
        <5>2. i # settling
          BY <5>1 DEF OnTheWay, Records, NoRecord
        <5> QED
          BY <4>2, <5>1, <5>2
      <4> QED
        BY <4>1, <4>2
    <3> QED
      BY <2>2, <3>1, <3>2, <3>3 DEF OnTheWay
  <2> QED
    BY <2>1, <2>4, <2>5
<1> QED
  BY <1>1, <1>2, <1>3

(* _admit, before and after the end of acceptance. *)
LEMMA AdmitStep ==
  ASSUME IInv, NEW i \in Records, Admit(i) \/ AdmitRefused(i)
  PROVE  IInv'
<1> USE DEF IInv
<1>1. /\ settling = NoRecord /\ thread[i] = "posted" /\ thread' = [thread EXCEPT ![i] = "admitted"]
      /\ keyOf' = keyOf /\ cur' = cur /\ sweep' = sweep
      /\ accepting' = accepting /\ mode' = mode /\ shut' = shut
  BY Zenon DEF Admit, AdmitRefused, LoopFree, conVars, shutVars
<1>2. /\ i \notin queued
      /\ \A j \in 1 .. Len(queue) : queue[j] # i
      /\ \A c \in Consumers : cur[c] # i
  BY <1>1 DEF Types, Owners, OnTheWay, Held, Busy, Records, NoRecord
<1>3. \A r \in queued \cup {i} : thread'[r] = "admitted"
  BY <1>1 DEF Types, OnTheWay
<1>4. \A r \in Records : thread'[r] \in {"claimed", "posted"} =>
         r # i /\ thread[r] \in {"claimed", "posted"}
  BY <1>1 DEF Types
<1>5. CASE Admit(i) /\ Full
  <2>1. /\ slot' = slot
        /\ settling' = settling \/ (settling' = i /\ slot[keyOf[i]] = i)
    BY <1>5, FinishEffect DEF Admit
  <2>2. queued' = queued \cup {i} /\ queue' = queue
    BY <1>5 DEF Admit
  <2>3. Types'
    BY <1>1, <2>1, <2>2 DEF Types
  <2>4. \A c \in Consumers : cur'[c] \in {cur[c], NoRecord}
    BY <1>1
  <2>5. Owners'
    BY <1>1, <1>2, <2>1, <2>2, <2>3, <2>4, OwnersLetGo DEF Types
  <2>6. OnTheWay'
    BY <1>1, <1>3, <1>4, <2>1, <2>2 DEF OnTheWay
  <2> QED
    BY <2>3, <2>5, <2>6
<1>6. CASE Admit(i) /\ ~Full
  <2>1. /\ slot' = slot /\ settling' = settling /\ accepting
        /\ queued' = queued \cup {i} /\ queue' = Append(queue, i)
    BY <1>6 DEF Admit, tables
  <2>2. Types'
    BY <1>1, <2>1 DEF Types
  <2>3. /\ Len(queue) \in Nat /\ Len(queue') = Len(queue) + 1
        /\ \A j \in 1 .. Len(queue) : queue'[j] = queue[j]
        /\ queue'[Len(queue) + 1] = i
    BY <2>1 DEF Types
  <2>4. \A j \in 1 .. Len(queue') :
           (j \in 1 .. Len(queue) /\ queue'[j] = queue[j]) \/ (j = Len(queue) + 1 /\ queue'[j] = i)
    BY <2>3
  <2>5. Held(i)'
    BY <1>1, <2>1 DEF Held, OnTheWay, Records, NoRecord
  <2>6. \A r \in Records : Held(r) => Held(r)'
    BY <1>1, <2>1 DEF Held
  <2>7. \A j \in 1 .. Len(queue') : Held(queue[j])'
    BY <1>1, <2>1, <2>4, <2>5, <2>6 DEF Owners, Held
  <2>8. \A c \in Consumers : Busy(c)' => Held(cur[c])'
    BY <1>1, <2>1 DEF Owners, Held, Busy
  <2>9. \A j, k \in 1 .. Len(queue') : queue'[j] = queue'[k] => j = k
    BY <1>2, <2>4 DEF Owners
  <2>10. \A c, d \in Consumers : Busy(c)' /\ cur'[c] = cur'[d] => c = d
    BY <1>1 DEF Owners, Busy
  <2>11. \A c \in Consumers, j \in 1 .. Len(queue') : queue'[j] # cur'[c]
    BY <1>1, <1>2, <2>4 DEF Owners
  <2>12. Owners'
    BY <2>7, <2>8, <2>9, <2>10, <2>11 DEF Owners
  <2>13. OnTheWay'
    BY <1>1, <1>3, <1>4, <2>1 DEF OnTheWay
  <2> QED
    BY <2>2, <2>12, <2>13
<1>7. CASE AdmitRefused(i)
  <2>1. ~accepting /\ queued' = queued /\ queue' = queue
    BY <1>7 DEF AdmitRefused
  <2>2. /\ slot' = slot
        /\ \/ settling' = settling
           \/ /\ settling' \in Records \ queued
              /\ slot[keyOf[settling']] = settling'
    <3> DEFINE r == slot[keyOf[i]]
    <3>1. CASE r = NoRecord
      BY <1>7, <3>1 DEF AdmitRefused
    <3>2. CASE r # NoRecord /\ r \in queued
      BY Zenon, <1>7, <3>2 DEF AdmitRefused, tables
    <3>3. CASE r # NoRecord /\ r \notin queued
      <4>1. r \in Records
        BY <3>3 DEF Types
      <4>2. Finish(r, "failed")
        BY Zenon, <1>7, <3>3 DEF AdmitRefused
      <4> QED
        BY <3>3, <4>1, <4>2, FinishEffect
    <3> QED
      BY <3>1, <3>2, <3>3
  <2>3. Types'
    BY <1>1, <2>1, <2>2 DEF Types
  <2>4. \A c \in Consumers : cur'[c] \in {cur[c], NoRecord}
    BY <1>1
  <2>5. \/ settling' = settling
        \/ /\ \A j \in 1 .. Len(queue) : queue[j] # settling'
           /\ \A c \in Consumers : cur'[c] # NoRecord => cur'[c] # settling'
    BY <1>1, <2>2 DEF Owners, Held, Busy
  <2>6. Owners'
    BY <1>1, <2>1, <2>2, <2>3, <2>4, <2>5, OwnersLetGo DEF Types
  <2>7. OnTheWay'
    BY <1>1, <1>3, <2>1, <2>2 DEF OnTheWay
  <2> QED
    BY <2>3, <2>6, <2>7
<1> QED
  BY <1>5, <1>6, <1>7

(* A consumer takes the head of the queue. *)
LEMMA GetStep ==
  ASSUME IInv, NEW c \in Consumers, Get(c)
  PROVE  IInv'
<1> USE DEF IInv
<1>1. /\ queue # <<>> /\ cur' = [cur EXCEPT ![c] = Head(queue)] /\ queue' = Tail(queue)
      /\ slot' = slot /\ settling' = settling /\ keyOf' = keyOf /\ thread' = thread
      /\ queued' = queued /\ sweep' = sweep
      /\ accepting' = accepting /\ mode' = mode /\ shut' = shut
  BY DEF Get, tables, recVars, shutVars
<1>2. /\ Head(queue) \in Records /\ Held(Head(queue))
      /\ Tail(queue) \in Seq(Records)
      /\ \A i \in 1 .. Len(Tail(queue)) :
           /\ i + 1 \in 1 .. Len(queue)
           /\ Tail(queue)[i] = queue[i + 1]
           /\ Tail(queue)[i] # Head(queue)
      /\ \A d \in Consumers : cur[d] # Head(queue)
  BY <1>1, HeadIsAlone
<1>3. Types'
  BY <1>1, <1>2 DEF Types
<1>4. cur'[c] = Head(queue) /\ \A d \in Consumers \ {c} : cur'[d] = cur[d]
  BY <1>1 DEF Types
<1>5. \A i \in 1 .. Len(queue') : Held(queue[i])'
  BY <1>1, <1>2 DEF Owners, Held
<1>6. \A d \in Consumers : Busy(d)' => Held(cur[d])'
  BY <1>1, <1>2, <1>4 DEF Owners, Held, Busy
<1>7. \A i, j \in 1 .. Len(queue') : queue'[i] = queue'[j] => i = j
  <2> SUFFICES ASSUME NEW i \in 1 .. Len(Tail(queue)), NEW j \in 1 .. Len(Tail(queue)),
                      queue[i + 1] = queue[j + 1]
               PROVE  i = j
    BY <1>1, <1>2
  <2>1. i + 1 = j + 1
    BY <1>2 DEF Owners
  <2> QED
    BY <2>1
<1>8. \A d, e \in Consumers : Busy(d)' /\ cur'[d] = cur'[e] => d = e
  BY <1>2, <1>4 DEF Owners, Busy
<1>9. \A d \in Consumers, i \in 1 .. Len(queue') : queue'[i] # cur'[d]
  BY <1>1, <1>2, <1>4 DEF Owners
<1>10. Owners'
  BY <1>5, <1>6, <1>7, <1>8, <1>9 DEF Owners
<1>11. OnTheWay'
  BY <1>1 DEF OnTheWay
<1> QED
  BY <1>3, <1>10, <1>11

(* _fail_never_started fails the head of the queue. *)
LEMMA DrainStep ==
  ASSUME IInv, DrainOne
  PROVE  IInv'
<1> USE DEF IInv
<1>1. /\ queue # <<>> /\ queue' = Tail(queue) /\ Finish(Head(queue), "failed")
      /\ cur' = cur /\ keyOf' = keyOf /\ thread' = thread /\ queued' = queued /\ sweep' = sweep
      /\ accepting' = accepting /\ mode' = mode /\ shut' = shut
  BY DEF DrainOne, conVars, recVars, shutVars
<1>2. /\ Head(queue) \in Records /\ Held(Head(queue))
      /\ Tail(queue) \in Seq(Records)
      /\ \A i \in 1 .. Len(Tail(queue)) :
           /\ i + 1 \in 1 .. Len(queue)
           /\ Tail(queue)[i] = queue[i + 1]
           /\ Tail(queue)[i] # Head(queue)
      /\ \A d \in Consumers : cur[d] # Head(queue)
  BY <1>1, HeadIsAlone
<1>3. /\ slot' = slot
      /\ settling' = settling \/ (settling' = Head(queue) /\ slot[keyOf[Head(queue)]] = Head(queue))
  BY <1>1, <1>2, FinishEffect
<1>4. Types'
  BY <1>1, <1>2, <1>3 DEF Types
<1>5. \A i \in 1 .. Len(queue') : Held(queue[i])'
  BY <1>1, <1>2, <1>3 DEF Owners, Held
<1>6. \A d \in Consumers : Busy(d)' => Held(cur[d])'
  BY <1>1, <1>2, <1>3 DEF Owners, Held, Busy
<1>7. \A i, j \in 1 .. Len(queue') : queue'[i] = queue'[j] => i = j
  <2> SUFFICES ASSUME NEW i \in 1 .. Len(Tail(queue)), NEW j \in 1 .. Len(Tail(queue)),
                      queue[i + 1] = queue[j + 1]
               PROVE  i = j
    BY <1>1, <1>2
  <2>1. i + 1 = j + 1
    BY <1>2 DEF Owners
  <2> QED
    BY <2>1
<1>8. \A d, e \in Consumers : Busy(d)' /\ cur'[d] = cur'[e] => d = e
  BY <1>1 DEF Owners, Busy
<1>9. \A d \in Consumers, i \in 1 .. Len(queue') : queue'[i] # cur'[d]
  BY <1>1, <1>2 DEF Owners
<1>10. Owners'
  BY <1>5, <1>6, <1>7, <1>8, <1>9 DEF Owners
<1>11. OnTheWay'
  BY <1>1, <1>2, <1>3, OnTheWayKept DEF Held, OnTheWay
<1> QED
  BY <1>4, <1>10, <1>11

(* The last statement of _finish frees one slot: that of no record somebody *)
(* holds, and of none on its way while intents are accepted.                *)
LEMMA FreeStep ==
  ASSUME IInv, FreeSlot
  PROVE  IInv'
<1> USE DEF IInv
<1>1. /\ settling \in Records /\ slot[keyOf[settling]] = settling
      /\ slot' = [slot EXCEPT ![keyOf[settling]] = NoRecord] /\ settling' = NoRecord
      /\ queue' = queue /\ cur' = cur /\ keyOf' = keyOf /\ thread' = thread
      /\ queued' = queued /\ sweep' = sweep
      /\ accepting' = accepting /\ mode' = mode /\ shut' = shut
  BY DEF FreeSlot, Types, OnTheWay, recVars, conVars, shutVars
<1>2. Types'
  BY <1>1 DEF Types
<1>3. ASSUME NEW r \in Records, slot[keyOf[r]] = r, r # settling
      PROVE  slot'[keyOf[r]] = r /\ r # settling'
  BY <1>1, <1>3 DEF Types, Records, NoRecord
<1>4. \A r \in Records : Held(r) => Held(r)'
  BY <1>1, <1>3 DEF Held
<1>5. \A i \in 1 .. Len(queue') : Held(queue[i])'
  BY <1>1, <1>4 DEF Types, Owners, Held
<1>6. \A d \in Consumers : Busy(d)' => Held(cur[d])'
  BY <1>1, <1>4 DEF Types, Owners, Held, Busy
<1>7. Owners'
  BY <1>1, <1>5, <1>6 DEF Owners, Busy
<1>8. OnTheWay'
  BY <1>1, <1>3 DEF OnTheWay
<1> QED
  BY <1>2, <1>7, <1>8

(* Shutdown fails a record that no queue ever saw. *)
LEMMA SweepStep ==
  ASSUME IInv, NEW r \in Records, SweepOne(r)
  PROVE  IInv'
<1> USE DEF IInv
<1>1. /\ queue' = queue /\ cur' = cur /\ keyOf' = keyOf /\ thread' = thread
      /\ queued' = queued /\ sweep' = sweep \ {r}
      /\ accepting' = accepting /\ mode' = mode /\ shut' = shut /\ ~accepting
  BY DEF SweepOne, recVars, conVars, OnTheWay
<1>2. /\ slot' = slot
      /\ settling' = settling \/ (settling' = r /\ slot[keyOf[r]] = r /\ r \notin queued)
  <2>1. CASE r \in queued
    BY <2>1 DEF SweepOne, tables
  <2>2. CASE r \notin queued
    BY <2>2, FinishEffect DEF SweepOne
  <2> QED
    BY <2>1, <2>2
<1>3. Types'
  BY <1>1, <1>2 DEF Types
<1>4. \/ settling' = settling
      \/ /\ \A j \in 1 .. Len(queue) : queue[j] # settling'
         /\ \A c \in Consumers : cur'[c] # NoRecord => cur'[c] # settling'
  BY <1>1, <1>2 DEF Owners, Held, Busy
<1>5. \A c \in Consumers : cur'[c] \in {cur[c], NoRecord}
  BY <1>1
<1>6. Owners'
  BY <1>1, <1>2, <1>3, <1>4, <1>5, OwnersLetGo DEF Types
<1>7. OnTheWay'
  BY <1>1, <1>2, OnTheWayKept DEF OnTheWay
<1> QED
  BY <1>3, <1>6, <1>7

(* A step that touches no slot, no thread, no queue and no consumer's       *)
(* record.                                                                  *)
LEMMA QuietStep ==
  ASSUME IInv, UNCHANGED <<slot, settling, recVars, queue, cur>>,
         sweep' \subseteq Records, accepting' => accepting,
         mode' # "free" \/ shut' # "no" => ~accepting'
  PROVE  IInv'
<1>1. Types'
  BY DEF IInv, Types, recVars
<1>2. Owners'
  BY DEF IInv, Owners, Held, Busy, recVars
<1>3. OnTheWay'
  BY DEF IInv, OnTheWay, recVars
<1> QED
  BY <1>1, <1>2, <1>3 DEF IInv

(* A step of a consumer. *)
LEMMA ConsumerStep ==
  ASSUME IInv, NEW c \in Consumers,
         Step(c) \/ DeadlinePasses(c) \/ Crash(c) \/ Cancelled(c) \/ CancelLost(c)
  PROVE  IInv'
<1>1. sweep \subseteq Records /\ (mode # "free" \/ shut # "no" => ~accepting)
  BY DEF IInv, Types, OnTheWay
<1>2. CASE Found(c) \/ Fits(c) \/ Acquire(c) \/ NoRoomAfterAll(c) \/ Transferred(c) \/ DeadlinePasses(c)
  BY <1>1, <1>2, QuietStep
     DEF Found, Fits, Acquire, NoRoomAfterAll, Transferred, DeadlinePasses, tables, shutVars
<1>3. CASE Succeed(c)
  BY Zenon, <1>1, <1>3, LetGo DEF Succeed, Running, shutVars
<1>4. CASE Fail(c)
  BY Zenon, <1>1, <1>4, LetGo DEF Fail, Running, shutVars
<1>5. CASE Crash(c)
  <2>1. /\ accepting' => accepting
        /\ mode' # "free" \/ shut' # "no" => ~accepting'
    BY <1>1, <1>5 DEF Crash
  <2> QED
    BY Zenon, <1>5, <2>1, LetGo DEF Crash
<1>6. CASE Cancelled(c) /\ Busy(c)
  BY Zenon, <1>1, <1>6, LetGo DEF Cancelled, shutVars
<1>7. CASE Cancelled(c) /\ ~Busy(c)
  <2>1. cur' = cur
    BY <1>7 DEF Cancelled, Busy, IInv, Types
  <2> QED
    BY <1>1, <1>7, <2>1, QuietStep DEF Cancelled, tables, shutVars
<1>8. CASE CancelLost(c)
  BY Zenon, <1>1, <1>8, LetGo DEF CancelLost
<1> QED
  BY <1>2, <1>3, <1>4, <1>5, <1>6, <1>7, <1>8 DEF Step

(* The invariant is inductive. *)
LEMMA NextIInv == IInv /\ [Next]_vars => IInv'
<1> SUFFICES ASSUME IInv, [Next]_vars PROVE IInv'
  OBVIOUS
<1>1. sweep \subseteq Records /\ (mode # "free" \/ shut # "no" => ~accepting)
  BY DEF IInv, Types, OnTheWay
<1>2. CASE FreeSlot \/ DrainOne
  BY <1>2, FreeStep, DrainStep
<1>3. CASE AskAgain \/ \E k \in Intents : AskMisses(k)
  BY <1>1, <1>3, QuietStep DEF AskAgain, AskMisses, tables, conVars, shutVars
<1>4. CASE DrainEnd
  <2>1. {slot[k] : k \in Intents} \ {NoRecord} \subseteq Records
    BY DEF IInv, Types
  <2> QED
    BY <1>1, <1>4, <2>1, QuietStep DEF DrainEnd, tables, conVars
<1>5. CASE ShutdownStart \/ ShutdownDrain \/ SweepEnd
  BY <1>1, <1>5, QuietStep
     DEF ShutdownStart, ShutdownDrain, SweepEnd, tables, conVars
<1>6. CASE \E i \in Records : SubmitCheck(i) \/ SubmitClaim(i) \/ SubmitPost(i)
  BY <1>6, ThreadStep
<1>7. CASE \E i \in Records : Admit(i) \/ AdmitRefused(i)
  BY <1>7, AdmitStep
<1>8. CASE \E i \in Records : SweepOne(i)
  BY <1>8, SweepStep
<1>9. CASE \E c \in Consumers : Get(c)
  BY <1>9, GetStep
<1>10. CASE \E c \in Consumers :
               Step(c) \/ DeadlinePasses(c) \/ Crash(c) \/ Cancelled(c) \/ CancelLost(c)
  BY <1>10, ConsumerStep
<1>11. CASE UNCHANGED vars
  BY <1>1, <1>11, QuietStep DEF vars, tables, conVars, shutVars
<1> QED
  BY <1>2, <1>3, <1>4, <1>5, <1>6, <1>7, <1>8, <1>9, <1>10, <1>11 DEF Next

(* The invariant keeps keys apart: two holders of one key would hold what   *)
(* is in one slot.                                                          *)
LEMMA IInvNoDoubleRun == IInv => NoDoubleRun
<1> SUFFICES ASSUME IInv PROVE NoDoubleRun
  OBVIOUS
<1>1. ASSUME NEW c \in Consumers, NEW d \in Consumers, c # d, Busy(c), Busy(d)
      PROVE  keyOf[cur[c]] # keyOf[cur[d]]
  <2>1. slot[keyOf[cur[c]]] = cur[c] /\ slot[keyOf[cur[d]]] = cur[d] /\ cur[c] # cur[d]
    BY <1>1 DEF IInv, Owners, Held
  <2> QED
    BY <2>1
<1>2. ASSUME NEW c \in Consumers, NEW i \in 1 .. Len(queue), Busy(c)
      PROVE  keyOf[queue[i]] # keyOf[cur[c]]
  <2>1. slot[keyOf[cur[c]]] = cur[c] /\ slot[keyOf[queue[i]]] = queue[i] /\ queue[i] # cur[c]
    BY <1>2 DEF IInv, Owners, Held
  <2> QED
    BY <2>1
<1> QED
  BY <1>1, <1>2 DEF NoDoubleRun

(* No key is prefetched by two consumers at a time, or by one while it is   *)
(* queued again, whatever threads, consumers, crashes and shutdown do.      *)
THEOREM OneRunPerKey == Spec => []NoDoubleRun
<1>1. Spec => []IInv
  BY InitIInv, NextIInv, PTL DEF Spec
<1> QED
  BY <1>1, IInvNoDoubleRun, PTL

-----------------------------------------------------------------------------
(* The transfer gate *)

Positions == {"get", "exists", "room", "gate", "flow", "onready", "dead"}
Inside == {c \in Consumers : pc[c] = "flow"}

GateInv ==
  /\ pc \in [Consumers -> Positions]
  /\ free \in Int
  /\ GateBalanced

(* The consumers inside the gate are finitely many. *)
LEMMA InsideIsFinite == IsFiniteSet(Inside) /\ Cardinality(Inside) \in Nat
BY ConsumersAssumption, FS_Subset, FS_CardinalityType DEF Inside

(* One consumer goes in and takes a place. *)
LEMMA GateIn ==
  ASSUME GateInv, NEW c \in Consumers, pc[c] # "flow",
         pc' = [pc EXCEPT ![c] = "flow"], free' = free - 1
  PROVE  GateInv'
<1>1. free + Cardinality(Inside) = MaxConcurrent /\ free \in Int
  BY DEF GateInv, GateBalanced, Inside
<1>2. Inside' = Inside \cup {c} /\ c \notin Inside
  BY DEF GateInv, Inside, Positions
<1>3. Cardinality(Inside') = Cardinality(Inside) + 1
  BY <1>2, InsideIsFinite, FS_AddElement
<1>4. free' + Cardinality(Inside') = MaxConcurrent /\ free' \in Int
  BY <1>1, <1>3, InsideIsFinite
<1> QED
  BY <1>4 DEF GateInv, GateBalanced, Inside, Positions

(* One consumer goes anywhere else, and gives its place back if it has one. *)
LEMMA GateOut ==
  ASSUME GateInv, NEW c \in Consumers, pc' \in [Consumers -> Positions], pc'[c] # "flow",
         \A d \in Consumers \ {c} : pc'[d] = pc[d],
         free' = Release(c)
  PROVE  GateInv'
<1>1. free + Cardinality(Inside) = MaxConcurrent /\ free \in Int
  BY DEF GateInv, GateBalanced, Inside
<1>2. Inside' = Inside \ {c}
  BY DEF GateInv, Inside
<1>3. Cardinality(Inside') = IF c \in Inside THEN Cardinality(Inside) - 1 ELSE Cardinality(Inside)
  BY Zenon, <1>2, InsideIsFinite, FS_RemoveElement
<1>4. free' + Cardinality(Inside') = MaxConcurrent /\ free' \in Int
  BY <1>1, <1>3, InsideIsFinite DEF Inside, Release
<1> QED
  BY <1>4 DEF GateInv, GateBalanced, Inside

(* Nobody is inside at first. *)
LEMMA InitGateInv == Init => GateInv
<1> SUFFICES ASSUME Init PROVE GateInv
  OBVIOUS
<1>1. {c \in Consumers : pc[c] = "flow"} = {}
  BY DEF Init
<1>2. free = MaxConcurrent /\ MaxConcurrent \in Int /\ pc \in [Consumers -> Positions]
  BY GateAssumption DEF Init, Positions
<1> QED
  BY <1>1, <1>2, FS_EmptySet DEF GateInv, GateBalanced

(* Every step keeps the balance. *)
LEMMA NextGateInv == GateInv /\ [Next]_vars => GateInv'
<1> SUFFICES ASSUME GateInv, [Next]_vars PROVE GateInv'
  OBVIOUS
<1>1. CASE UNCHANGED <<pc, free>>
  BY <1>1 DEF GateInv, GateBalanced
<1>2. ASSUME NEW c \in Consumers,
             \/ Get(c) \/ Found(c) \/ Fits(c) \/ NoRoomAfterAll(c) \/ Transferred(c)
             \/ Succeed(c) \/ Fail(c) \/ Crash(c) \/ Cancelled(c) \/ CancelLost(c)
      PROVE  GateInv'
  <2>1. /\ pc' \in [Consumers -> Positions] /\ pc'[c] # "flow"
        /\ \A d \in Consumers \ {c} : pc'[d] = pc[d]
    BY <1>2 DEF Get, Found, Fits, NoRoomAfterAll, Transferred, Succeed, Fail, Crash, Cancelled,
       CancelLost, Goes, GateInv, Positions
  <2>2. free' = Release(c)
    BY <1>2 DEF Get, Found, Fits, NoRoomAfterAll, Transferred, Succeed, Fail, Crash, Cancelled,
       CancelLost, Release
  <2> QED
    BY <2>1, <2>2, GateOut
<1>3. ASSUME NEW c \in Consumers, Acquire(c)
      PROVE  GateInv'
  BY Zenon, <1>3, GateIn DEF Acquire, Goes
<1>4. CASE \/ FreeSlot \/ AskAgain \/ DrainOne \/ DrainEnd
           \/ ShutdownStart \/ ShutdownDrain \/ SweepEnd
           \/ \E k \in Intents : AskMisses(k)
  BY Zenon, <1>1, <1>4 DEF FreeSlot, AskAgain, DrainOne, DrainEnd, ShutdownStart, ShutdownDrain,
     SweepEnd, AskMisses, conVars
<1>5. CASE \E i \in Records :
             \/ SubmitCheck(i) \/ SubmitClaim(i) \/ SubmitPost(i) \/ Admit(i) \/ AdmitRefused(i)
             \/ SweepOne(i)
  BY Zenon, <1>1, <1>5 DEF SubmitCheck, SubmitClaim, SubmitPost, Admit, AdmitRefused, SweepOne, conVars
<1>6. CASE \E c \in Consumers : DeadlinePasses(c)
  BY <1>1, <1>6 DEF DeadlinePasses
<1>7. CASE UNCHANGED vars
  BY <1>1, <1>7 DEF vars, conVars
<1> QED
  BY <1>2, <1>3, <1>4, <1>5, <1>6, <1>7 DEF Next, Step

(* The places of the gate are those of the consumers inside it, for any     *)
(* finite number of consumers and any number of places: no exit from        *)
(* _wait_then_run loses a place or returns one twice.                       *)
THEOREM GateStaysBalanced == Spec => []GateBalanced
<1>1. GateInv => GateBalanced
  BY DEF GateInv
<1> QED
  BY <1>1, InitGateInv, NextGateInv, PTL DEF Spec

-----------------------------------------------------------------------------
(* Answers to intent_status *)

Receipt == [key : Intents, status : {"ready", "failed"}]

(* The keys whose receipt was written, whether or not it is still there. *)
Answered == ReceiptKeys \cup evicted

(* A call of submit_intent that has passed the claim: its caller has a key, *)
(* or is about to get it.                                                   *)
Given(i) == thread[i] \in {"claimed", "posted", "returned", "admitted"}

(***************************************************************************)
(* Who was given a key finds it in its slot or answered; the slot that     *)
(* _finish is about to free is answered; and so is what a look-up missed.  *)
(***************************************************************************)
AnswerInv ==
  /\ receipts \in Seq(Receipt)
  /\ \A i \in Records : Given(i) => slot[keyOf[i]] # NoRecord \/ keyOf[i] \in Answered
  /\ settling # NoRecord => keyOf[settling] \in Answered
  /\ asked \subseteq Answered

(* Taking the receipt of k out keeps all others. *)
LEMMA OthersKept ==
  ASSUME receipts \in Seq(Receipt), NEW k
  PROVE  /\ ReceiptsBut(k) \in Seq(Receipt)
         /\ \A i \in 1 .. Len(receipts) : receipts[i].key # k =>
              \E j \in 1 .. Len(ReceiptsBut(k)) : ReceiptsBut(k)[j] = receipts[i]
<1>1. CASE k \notin ReceiptKeys
  BY <1>1 DEF ReceiptsBut
<1>2. CASE k \in ReceiptKeys
  <2> DEFINE p == CHOOSE i \in 1 .. Len(receipts) : receipts[i].key = k
             a == SubSeq(receipts, 1, p - 1)
             b == SubSeq(receipts, p + 1, Len(receipts))
  <2>1. p \in 1 .. Len(receipts) /\ receipts[p].key = k
    <3>1. \E i \in 1 .. Len(receipts) : receipts[i].key = k
      BY <1>2 DEF ReceiptKeys
    <3> QED
      BY Zenon, <3>1
  <2>2. ReceiptsBut(k) = a \o b
    BY Zenon, <1>2 DEF ReceiptsBut
  <2> HIDE DEF p
  <2>3. Len(receipts) \in Nat /\ p \in Nat /\ p >= 1 /\ p <= Len(receipts)
    BY <2>1
  <2>4. \A i \in 1 .. Len(receipts) : receipts[i] \in Receipt
    OBVIOUS
  <2>5. /\ a \in Seq(Receipt) /\ Len(a) = p - 1
        /\ \A i \in 1 .. p - 1 : a[i] = receipts[i]
    BY <2>3, <2>4
  <2>6. /\ b \in Seq(Receipt) /\ Len(b) = Len(receipts) - p
        /\ \A i \in 1 .. Len(receipts) - p : b[i] = receipts[p + i]
    BY <2>3, <2>4
  <2> HIDE DEF a, b
  <2>7. a \o b \in Seq(Receipt) /\ Len(a \o b) = Len(a) + Len(b)
    <3>1. a \in Seq(Receipt) /\ b \in Seq(Receipt)
      BY <2>5, <2>6
    <3> QED
      BY <3>1
  <2>8. \A i \in 1 .. Len(a) : (a \o b)[i] = a[i]
    BY <2>5, <2>6
  <2>9. \A i \in 1 .. Len(b) : (a \o b)[Len(a) + i] = b[i]
    BY <2>5, <2>6
  <2>10. ASSUME NEW i \in 1 .. Len(receipts), receipts[i].key # k
         PROVE  \E j \in 1 .. Len(a \o b) : (a \o b)[j] = receipts[i]
    <3>1. CASE i < p
      <4>1. i \in 1 .. p - 1 /\ i \in 1 .. Len(a) + Len(b)
        BY <2>3, <2>5, <2>6, <3>1
      <4>2. (a \o b)[i] = receipts[i]
        BY <2>5, <2>8, <4>1
      <4> QED
        BY <2>7, <4>1, <4>2
    <3>2. CASE i > p
      <4>1. /\ i - p \in 1 .. Len(receipts) - p /\ i - 1 \in 1 .. Len(a) + Len(b)
            /\ Len(a) + (i - p) = i - 1 /\ p + (i - p) = i
        BY <2>3, <2>5, <2>6, <3>2
      <4>2. (a \o b)[i - 1] = receipts[i]
        BY <2>6, <2>9, <4>1
      <4> QED
        BY Zenon, <2>7, <4>1, <4>2
    <3> QED
      BY <2>1, <2>3, <2>10, <3>1, <3>2
  <2> QED
    BY <2>2, <2>7, <2>10
<1> QED
  BY <1>1, <1>2

(* Writing a receipt keeps the others, and adds the one of its key. *)
LEMMA WithReceiptKeys ==
  ASSUME receipts \in Seq(Receipt), NEW k \in Intents, NEW v \in {"ready", "failed"}
  PROVE  /\ WithReceipt(k, v) \in Seq(Receipt)
         /\ \A x \in ReceiptKeys \cup {k} :
              \E j \in 1 .. Len(WithReceipt(k, v)) : WithReceipt(k, v)[j].key = x
<1> DEFINE q == ReceiptsBut(k)
           r == [key |-> k, status |-> v]
<1>1. /\ q \in Seq(Receipt)
      /\ \A i \in 1 .. Len(receipts) : receipts[i].key # k =>
           \E j \in 1 .. Len(q) : q[j] = receipts[i]
  BY OthersKept
<1>2. r \in Receipt /\ r.key = k
  BY DEF Receipt
<1>3. WithReceipt(k, v) = Append(q, r)
  BY DEF WithReceipt
<1> HIDE DEF q, r
<1>4. /\ Append(q, r) \in Seq(Receipt) /\ Len(q) \in Nat /\ Len(Append(q, r)) = Len(q) + 1
      /\ \A j \in 1 .. Len(q) : Append(q, r)[j] = q[j]
      /\ Append(q, r)[Len(q) + 1] = r
  BY <1>1, <1>2
<1>5. ASSUME NEW x \in ReceiptKeys \cup {k}
      PROVE  \E j \in 1 .. Len(Append(q, r)) : Append(q, r)[j].key = x
  <2>1. CASE x = k
    BY <1>2, <1>4, <2>1
  <2>2. CASE x # k
    <3>1. PICK i \in 1 .. Len(receipts) : receipts[i].key = x
      BY <2>2 DEF ReceiptKeys
    <3>2. PICK j \in 1 .. Len(q) : q[j] = receipts[i]
      BY <1>1, <2>2, <3>1
    <3>3. j \in 1 .. Len(Append(q, r)) /\ Append(q, r)[j].key = x
      BY <1>4, <3>1, <3>2
    <3> QED
      BY <3>3
  <2> QED
    BY <2>1, <2>2
<1> QED
  BY Zenon, <1>3, <1>4, <1>5

(* A receipt is written: its key is answered, and no answer is forgotten. *)
LEMMA ReceiptAnswers ==
  ASSUME receipts \in Seq(Receipt), NEW k \in Intents, NEW v \in {"ready", "failed"},
         receipts' = Trimmed(WithReceipt(k, v)),
         evicted' = evicted \cup Dropped(WithReceipt(k, v))
  PROVE  receipts' \in Seq(Receipt) /\ Answered \cup {k} \subseteq Answered'
<1> DEFINE q == WithReceipt(k, v)
<1>1. /\ q \in Seq(Receipt)
      /\ \A x \in ReceiptKeys \cup {k} : \E j \in 1 .. Len(q) : q[j].key = x
  BY Zenon, WithReceiptKeys
<1>2. receipts' = Trimmed(q) /\ evicted' = evicted \cup Dropped(q)
  OBVIOUS
<1> HIDE DEF q
<1>3. 1 .. Len(q) # {}
  BY Zenon, <1>1
<1>4. Len(q) \in Nat /\ q # <<>>
  BY <1>1, <1>3
<1>5. /\ Tail(q) \in Seq(Receipt) /\ Len(Tail(q)) = Len(q) - 1
      /\ \A i \in 1 .. Len(Tail(q)) : Tail(q)[i] = q[i + 1]
  BY <1>1, <1>4
<1>6. receipts' \in Seq(Receipt)
  BY Zenon, <1>1, <1>2, <1>5 DEF Trimmed
<1>7. ASSUME NEW x \in ReceiptKeys \cup {k}
      PROVE  x \in Answered'
  <2>1. PICK j \in 1 .. Len(q) : q[j].key = x
    BY <1>1
  <2>2. CASE Len(q) > FinishedMax
    <3>1. /\ receipts' = Tail(q) /\ q[1].key \in evicted'
          /\ Len(Tail(q)) = Len(q) - 1 /\ \A i \in 1 .. Len(q) - 1 : Tail(q)[i] = q[i + 1]
      BY Zenon, <1>2, <1>5, <2>2 DEF Trimmed, Dropped
    <3>2. CASE j = 1
      BY <2>1, <3>1, <3>2 DEF Answered
    <3>3. CASE j # 1
      <4>1. j - 1 \in 1 .. Len(q) - 1 /\ (j - 1) + 1 = j
        BY <1>4, <3>3
      <4>2. j - 1 \in 1 .. Len(receipts') /\ receipts'[j - 1].key = x
        BY <2>1, <3>1, <4>1
      <4> QED
        BY <4>2 DEF Answered, ReceiptKeys
    <3> QED
      BY <3>2, <3>3
  <2>3. CASE ~(Len(q) > FinishedMax)
    <3>1. receipts' = q
      BY <1>2, <2>3 DEF Trimmed
    <3> QED
      BY <2>1, <3>1 DEF Answered, ReceiptKeys
  <2> QED
    BY <2>2, <2>3
<1>8. evicted \subseteq evicted'
  BY <1>2
<1> QED
  BY <1>6, <1>7, <1>8 DEF Answered

(* A step that writes no receipt, or only adds answers, and empties no slot *)
(* that is not answered.                                                    *)
LEMMA AnswersStay ==
  ASSUME Types, AnswerInv, keyOf' = keyOf,
         receipts' \in Seq(Receipt), Answered \subseteq Answered',
         \A k \in Intents : slot[k] # NoRecord => slot'[k] # NoRecord \/ k \in Answered',
         \A i \in Records : Given(i)' => Given(i) \/ slot'[keyOf[i]] # NoRecord,
         settling' \in {settling, NoRecord} \/ keyOf[settling'] \in Answered',
         asked' \subseteq Answered'
  PROVE  AnswerInv'
<1>1. ASSUME NEW i \in Records, Given(i)'
      PROVE  slot'[keyOf[i]] # NoRecord \/ keyOf[i] \in Answered'
  <2>1. keyOf[i] \in Intents
    BY DEF Types
  <2> QED
    BY <1>1, <2>1 DEF AnswerInv
<1>2. settling' # NoRecord => keyOf'[settling'] \in Answered'
  BY DEF AnswerInv
<1> QED
  BY <1>1, <1>2 DEF AnswerInv

(* _finish leaves its record's key answered before the slot is free. *)
LEMMA FinishAnswers ==
  ASSUME Types, AnswerInv, NEW r \in Records, NEW v \in {"ready", "failed"}, Finish(r, v)
  PROVE  /\ receipts' \in Seq(Receipt) /\ Answered \subseteq Answered'
         /\ slot' = slot
         /\ settling' = settling \/ keyOf[settling'] \in Answered'
<1>1. keyOf[r] \in Intents /\ receipts \in Seq(Receipt)
  BY DEF Types, AnswerInv
<1>2. CASE slot[keyOf[r]] = r /\ status[r] = "pending"
  <2>1. /\ receipts' = Trimmed(WithReceipt(keyOf[r], v))
        /\ evicted' = evicted \cup Dropped(WithReceipt(keyOf[r], v))
        /\ settling' = r /\ slot' = slot
    BY <1>2 DEF Finish
  <2>2. receipts' \in Seq(Receipt) /\ Answered \cup {keyOf[r]} \subseteq Answered'
    BY <1>1, <2>1, ReceiptAnswers
  <2> QED
    BY <2>1, <2>2
<1>3. CASE ~(slot[keyOf[r]] = r /\ status[r] = "pending")
  <2>1. receipts' = receipts /\ evicted' = evicted /\ settling' = settling /\ slot' = slot
    BY <1>3 DEF Finish, tables
  <2> QED
    BY <1>1, <2>1 DEF Answered, ReceiptKeys
<1> QED
  BY <1>2, <1>3

(* _finish is called for a record, and nothing else that matters changes. *)
LEMMA FinishStep ==
  ASSUME Types, AnswerInv, NEW r \in Records, NEW v \in {"ready", "failed"}, Finish(r, v),
         keyOf' = keyOf, asked' = asked, \A i \in Records : Given(i)' => Given(i)
  PROVE  AnswerInv'
<1>1. /\ receipts' \in Seq(Receipt) /\ Answered \subseteq Answered' /\ slot' = slot
      /\ settling' = settling \/ keyOf[settling'] \in Answered'
  BY FinishAnswers
<1>2. asked' \subseteq Answered'
  BY <1>1 DEF AnswerInv
<1> QED
  BY <1>1, <1>2, AnswersStay

(* A step that leaves the tables alone. *)
LEMMA TablesStay ==
  ASSUME Types, AnswerInv, UNCHANGED tables, keyOf' = keyOf, asked' \subseteq Answered,
         \A i \in Records : Given(i)' => Given(i)
  PROVE  AnswerInv'
<1>1. /\ receipts' \in Seq(Receipt) /\ Answered' = Answered /\ slot' = slot /\ settling' = settling
  BY DEF tables, AnswerInv, Answered, ReceiptKeys
<1> QED
  BY <1>1, AnswersStay

(* Every step keeps the callers' keys known. *)
LEMMA NextAnswerInv == IInv /\ AnswerInv /\ [Next]_vars => AnswerInv'
<1> SUFFICES ASSUME IInv, AnswerInv, [Next]_vars PROVE AnswerInv'
  OBVIOUS
<1>1. Types /\ asked \subseteq Answered
  BY DEF IInv, AnswerInv
<1>2. UNCHANGED recVars => keyOf' = keyOf /\ \A i \in Records : Given(i)' => Given(i)
  BY DEF recVars, Given
<1>3. CASE FreeSlot
  <2>1. /\ settling \in Records /\ slot' = [slot EXCEPT ![keyOf[settling]] = NoRecord]
        /\ settling' = NoRecord /\ receipts' = receipts /\ evicted' = evicted /\ asked' = asked
        /\ UNCHANGED recVars
    BY <1>1, <1>3 DEF FreeSlot, Types
  <2>2. settling # NoRecord
    BY <1>3 DEF FreeSlot
  <2>3. receipts' \in Seq(Receipt) /\ keyOf[settling] \in Answered
    BY <2>1, <2>2 DEF AnswerInv
  <2>4. Answered' = Answered
    BY <2>1 DEF Answered, ReceiptKeys
  <2>5. \A k \in Intents : slot[k] # NoRecord => slot'[k] # NoRecord \/ k \in Answered'
    BY <1>1, <2>1, <2>3, <2>4 DEF Types
  <2> QED
    BY <1>1, <1>2, <2>1, <2>3, <2>4, <2>5, AnswersStay
<1>4. CASE AskAgain \/ DrainEnd \/ ShutdownStart \/ ShutdownDrain \/ SweepEnd
  <2>1. UNCHANGED tables /\ UNCHANGED recVars /\ asked' \subseteq Answered
    BY <1>1, <1>4 DEF AskAgain, DrainEnd, ShutdownStart, ShutdownDrain, SweepEnd
  <2> QED
    BY <1>1, <1>2, <2>1, TablesStay
<1>5. ASSUME NEW k \in Intents, AskMisses(k)
      PROVE  AnswerInv'
  <2>1. PICK i \in Records : keyOf[i] = k /\ thread[i] \in {"posted", "returned", "admitted"}
    BY <1>5 DEF AskMisses
  <2>2. slot[k] = NoRecord /\ asked' = {k} /\ UNCHANGED tables /\ UNCHANGED recVars
    BY <1>5 DEF AskMisses
  <2>3. k \in Answered
    BY <2>1, <2>2 DEF AnswerInv, Given
  <2> QED
    BY <1>1, <1>2, <2>2, <2>3, TablesStay
<1>6. CASE DrainOne
  <2>1. Head(queue) \in Records
    BY <1>1, <1>6 DEF DrainOne, Types
  <2>2. Finish(Head(queue), "failed") /\ UNCHANGED recVars /\ asked' = asked
    BY <1>6 DEF DrainOne
  <2> QED
    BY <1>1, <1>2, <2>1, <2>2, FinishStep
<1>7. ASSUME NEW i \in Records, SubmitCheck(i) \/ SubmitPost(i)
      PROVE  AnswerInv'
  <2>1. UNCHANGED tables /\ keyOf' = keyOf /\ asked' = asked
    BY <1>7 DEF SubmitCheck, SubmitPost
  <2>2. \A j \in Records : Given(j)' => Given(j)
    BY <1>1, <1>7 DEF SubmitCheck, SubmitPost, Types, Given
  <2> QED
    BY <1>1, <2>1, <2>2, TablesStay
<1>8. ASSUME NEW i \in Records, SubmitClaim(i)
      PROVE  AnswerInv'
  <2>1. /\ receipts' = receipts /\ evicted' = evicted /\ settling' = settling
        /\ keyOf' = keyOf /\ asked' = asked
    BY <1>8 DEF SubmitClaim
  <2>2. Answered' = Answered /\ receipts' \in Seq(Receipt)
    BY <2>1 DEF Answered, ReceiptKeys, AnswerInv
  <2>3. \A k \in Intents : slot[k] # NoRecord => slot'[k] # NoRecord
    BY <1>1, <1>8 DEF SubmitClaim, Claims, Types, Records, NoRecord
  <2>4. slot'[keyOf[i]] # NoRecord
    BY <1>1, <1>8 DEF SubmitClaim, Claims, Types, Records, NoRecord
  <2>5. \A j \in Records : Given(j)' => Given(j) \/ j = i
    BY <1>1, <1>8 DEF SubmitClaim, Types, Given
  <2> QED
    BY <1>1, <2>1, <2>2, <2>3, <2>4, <2>5, AnswersStay
<1>9. ASSUME NEW i \in Records, Admit(i) \/ AdmitRefused(i)
      PROVE  AnswerInv'
  <2>1. keyOf' = keyOf /\ asked' = asked
    BY Zenon, <1>9 DEF Admit, AdmitRefused
  <2>2. \A j \in Records : Given(j)' => Given(j)
    BY Zenon, <1>1, <1>9 DEF Admit, AdmitRefused, Types, Given
  <2>3. CASE UNCHANGED tables
    BY <1>1, <2>1, <2>2, <2>3, TablesStay
  <2>4. CASE \E r \in Records : Finish(r, "failed")
    BY <1>1, <2>1, <2>2, <2>4, FinishStep
  <2>5. CASE AdmitRefused(i) /\ slot[keyOf[i]] = NoRecord
    <3>1. /\ receipts' = Trimmed(WithReceipt(keyOf[i], "failed"))
          /\ evicted' = evicted \cup Dropped(WithReceipt(keyOf[i], "failed"))
          /\ slot' = slot /\ settling' = settling
      BY <2>5 DEF AdmitRefused
    <3>2. keyOf[i] \in Intents /\ receipts \in Seq(Receipt)
      BY <1>1 DEF Types, AnswerInv
    <3>3. receipts' \in Seq(Receipt) /\ Answered \subseteq Answered'
      BY <3>1, <3>2, ReceiptAnswers
    <3> QED
      BY <1>1, <2>1, <2>2, <3>1, <3>3, AnswersStay
  <2>6. CASE AdmitRefused(i) /\ slot[keyOf[i]] # NoRecord
    <3>1. slot[keyOf[i]] \in Records
      BY <1>1, <2>6 DEF Types
    <3>2. UNCHANGED tables \/ Finish(slot[keyOf[i]], "failed")
      BY Zenon, <2>6 DEF AdmitRefused
    <3> QED
      BY <2>3, <2>4, <3>1, <3>2
  <2>7. CASE Admit(i)
    <3>1. UNCHANGED tables \/ Finish(i, "failed")
      BY <2>7 DEF Admit
    <3> QED
      BY <2>3, <2>4, <3>1
  <2> QED
    BY <1>9, <2>5, <2>6, <2>7
<1>10. ASSUME NEW r \in Records, SweepOne(r)
       PROVE  AnswerInv'
  <2>1. (UNCHANGED tables \/ Finish(r, "failed")) /\ UNCHANGED recVars /\ asked' = asked
    BY <1>10 DEF SweepOne
  <2> QED
    BY <1>1, <1>2, <2>1, TablesStay, FinishStep
<1>11. ASSUME NEW c \in Consumers,
              \/ Get(c) \/ Found(c) \/ Fits(c) \/ Acquire(c) \/ NoRoomAfterAll(c)
              \/ Transferred(c) \/ DeadlinePasses(c)
       PROVE  AnswerInv'
  <2>1. UNCHANGED tables /\ UNCHANGED recVars /\ asked' = asked
    BY <1>11 DEF Get, Found, Fits, Acquire, NoRoomAfterAll, Transferred, DeadlinePasses
  <2> QED
    BY <1>1, <1>2, <2>1, TablesStay
<1>12. ASSUME NEW c \in Consumers,
              Succeed(c) \/ Fail(c) \/ Crash(c) \/ Cancelled(c) \/ CancelLost(c)
       PROVE  AnswerInv'
  <2>1. Busy(c) => cur[c] \in Records
    BY <1>1 DEF Types, Busy
  <2>2. /\ \/ UNCHANGED tables
           \/ Busy(c) /\ Finish(cur[c], "ready")
           \/ Busy(c) /\ Finish(cur[c], "failed")
        /\ UNCHANGED recVars /\ asked' = asked
    BY <1>12 DEF Succeed, Fail, Crash, Cancelled, CancelLost, Running
  <2> QED
    BY <1>1, <1>2, <2>1, <2>2, TablesStay, FinishStep
<1>13. CASE UNCHANGED vars
  <2>1. UNCHANGED tables /\ UNCHANGED recVars /\ asked' = asked
    BY <1>13 DEF vars
  <2> QED
    BY <1>1, <1>2, <2>1, TablesStay
<1> QED
  BY <1>3, <1>4, <1>5, <1>6, <1>7, <1>8, <1>9, <1>10, <1>11, <1>12, <1>13 DEF Next, Step

(* Nobody has a key at first. *)
LEMMA InitAnswerInv == Init => AnswerInv
BY DEF Init, AnswerInv, Given

(* A caller that was given a key never gets "unknown" from intent_status,   *)
(* unless the ring has dropped the receipt, for any keys, calls, consumers  *)
(* and size of the ring: _finish writes the receipt before it frees the     *)
(* slot, and intent_status looks in the opposite order.                     *)
THEOREM NobodyIsUnknown == Spec => []NeverUnknown
<1>1. AnswerInv => NeverUnknown
  BY Zenon DEF AnswerInv, NeverUnknown, Answered
<1>2. Init => IInv /\ AnswerInv
  BY InitIInv, InitAnswerInv
<1>3. IInv /\ AnswerInv /\ [Next]_vars => (IInv /\ AnswerInv)'
  BY NextIInv, NextAnswerInv
<1> QED
  BY <1>1, <1>2, <1>3, PTL DEF Spec
=============================================================================
