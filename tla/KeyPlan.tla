------------------------------- MODULE KeyPlan -------------------------------
(***************************************************************************)
(* From a token prefix to the copy plan: the block hash chain, the         *)
(* expansion of a hash into one pool key per rank, and the map from the    *)
(* rank of a key to the segment it is copied to                            *)
(* (kvcm/engines/vllm/keys.py, KeyComputer).                               *)
(*                                                                         *)
(* A hash is a model value of the pair <<parent hash, tokens>>; a key is   *)
(* a record of the fields its string is made of.  A function that raises   *)
(* returns Raise(why), any other Ok(value).                                *)
(***************************************************************************)
EXTENDS Integers, Sequences, FiniteSets, SequencesExt, FiniteSetsExt

Ok(v) == [ok |-> TRUE, val |-> v]
Raise(why) == [ok |-> FALSE, why |-> why]

(* range(n), and "for x in s: out.extend(Op(x))".                          *)
UpTo(n) == [i \in 1..n |-> i - 1]
ForEach(s, Op(_)) == FlattenSeq([i \in DOMAIN s |-> Op(s[i])])

NoHash == <<>>
NoLayer == -1

(***************************************************************************)
(* hash_token_block_chain: one hash per full block, each over its parent's *)
(* hash; the tail shorter than a block is left out.  Without the engine's  *)
(* hash seed the chain would be another one on every run: refused.         *)
(***************************************************************************)
BlockChain(tokens, blockSize, seeded) ==
  LET n == Len(tokens) \div blockSize
      Chunk(i) == SubSeq(tokens, (i - 1) * blockSize + 1, i * blockSize)
      hash[i \in 0..n] == IF i = 0 THEN NoHash ELSE <<hash[i - 1], Chunk(i)>>
  IN IF seeded THEN Ok([i \in 1..n |-> hash[i]]) ELSE Raise("seed")

(* KeyComputer.effective_tp; a peer of 0 is "no peer".                     *)
EffectiveTp(tp, peer) ==
  IF peer # 0 /\ peer # tp THEN Max({tp, peer}) ELSE tp

HeadRanks(tp, putStep) == Max({tp \div Max({putStep, 1}), 1})

(* PoolKey.to_string, and the key of one layer, which has no pp rank.      *)
PoolKey(h, c, d, r, p, l) ==
  [hash |-> h, pcp |-> c, dcp |-> d, rank |-> r,
   pp |-> IF l = NoLayer THEN p ELSE 0, layer |-> l]

(***************************************************************************)
(* expand_store_keys: x holds tp, put, pcp, dcp, pp, split (include_layers:*)
(* a key per layer instead of one per block) and layers.                   *)
(***************************************************************************)
ExpandStoreKeys(hashes, x) ==
  IF x.split /\ x.layers <= 0 THEN Raise("layers")
  ELSE Ok(ForEach(hashes, LAMBDA h :
    ForEach(UpTo(x.pcp), LAMBDA c :
      ForEach(UpTo(x.dcp), LAMBDA d :
        ForEach(UpTo(HeadRanks(x.tp, x.put)), LAMBDA r :
          ForEach(UpTo(x.pp), LAMBDA p :
            IF x.split
              THEN [l \in 1..x.layers |-> PoolKey(h, c, d, r, p, l - 1)]
              ELSE <<PoolKey(h, c, d, r, p, NoLayer)>>))))))

(* KeyComputer.expand: the other parallel sizes keep their default of 1.   *)
Expand(hashes, tp, peer, put) ==
  ExpandStoreKeys(hashes, [tp |-> EffectiveTp(tp, peer), put |-> put,
                           pcp |-> 1, dcp |-> 1, pp |-> 1, split |-> FALSE, layers |-> 0])

(* keys_for_tokens.                                                        *)
KeysForTokens(tokens, x) ==
  LET chain == BlockChain(tokens, x.block, x.seeded)
  IN IF chain.ok THEN Expand(chain.val, x.tp, x.peer, x.put) ELSE chain

(* group_keys_by_rank, as the set of its ranks, and the largest of them.   *)
RanksOf(keys) == {keys[i].rank : i \in DOMAIN keys}
MaxRank(keys) == IF keys = <<>> THEN -1 ELSE Max(RanksOf(keys))

(***************************************************************************)
(* More key ranks than target segments: the keys were named for the peer's *)
(* larger TP, and a target holds n_sub of its ranks.                       *)
(***************************************************************************)
Reversed(top, targets, tp, peer) ==
  /\ peer > tp /\ tp > 0
  /\ peer % tp = 0
  /\ Len(targets) = tp
  /\ top = peer - 1

SubSegs_RoundRobin(targets, tp, peer) == [i \in 1..peer |-> targets[((i - 1) % tp) + 1]]

SubSegs(targets, tp, peer) == [i \in 1..peer |-> targets[(i - 1) \div (peer \div tp) + 1]]

(***************************************************************************)
(* KeyComputer.build_plan: a key of rank i goes to targets[i].  A segment  *)
(* the plan would leave out means the target list is not that of one       *)
(* instance, and is refused.  (The code's check for ranks out of range     *)
(* cannot fail once the list has been expanded.)                           *)
(***************************************************************************)
BuildPlan(keys, targets, tp, peer) ==
  LET top == MaxRank(keys)
      segs == CASE top < Len(targets) -> targets
                [] Reversed(top, targets, tp, peer) -> SubSegs(targets, tp, peer)
                [] OTHER -> <<>>
  IN CASE keys = <<>> -> Ok(<<>>)
       [] top = 0 /\ Len(targets) # 1 -> Raise("extra")
       [] top = 0 -> Ok([i \in DOMAIN keys |-> <<keys[i], targets[1]>>])
       [] segs = <<>> -> Raise("short")
       [] Len(segs) > top + 1 -> Raise("extra")
       [] OTHER -> Ok([i \in DOMAIN keys |-> <<keys[i], segs[keys[i].rank + 1]>>])
=============================================================================
