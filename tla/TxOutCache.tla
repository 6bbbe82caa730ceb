------------------------------ MODULE TxOutCache ------------------------------
(***************************************************************************)
(* The least-recently-used cache of transaction outputs of                 *)
(* bitcallback/bitmon/cache.py, through which a Transaction looks up the   *)
(* outputs it spends. An OrderedDict is the sequence of its keys, oldest   *)
(* first; the outputs stored under a key are what bitcoind answered for    *)
(* that transaction and are left out. purge is called nowhere.             *)
(***************************************************************************)
EXTENDS Integers, Sequences, SequencesExt

CONSTANTS
  Tx,        \* transaction ids
  NoTx,      \* "no request under way"
  MaxSize    \* _max_size

(* A cache of size 0 would evict what txout is about to return. *)
CacheAssumption == NoTx \notin Tx /\ MaxSize \in Nat \ {0}

VARIABLES
  cache,     \* _cache: the keys in the order of the OrderedDict
  fetching,  \* the transaction getrawtransaction was called for
  recent     \* history: the transactions looked up, by their last look-up

vars == <<cache, fetching, recent>>

Init == cache = << >> /\ fetching = NoTx /\ recent = << >>

(* A key appended at the end, and moved there. (Unmoved is the mistake of  *)
(* leaving out move_to_end.)                                               *)
Unmoved(q, tx) == q
MovedToEnd(q, tx) == Append(RemoveFirst(q, tx), tx)

(* The cache without its oldest entry when it is too large. *)
Evicted(q) == IF Len(q) > MaxSize THEN Tail(q) ELSE q

(* txout: the transaction is in the cache and becomes the newest there. *)
Hit(tx) ==
  /\ fetching = NoTx
  /\ Contains(cache, tx)
  /\ cache' = MovedToEnd(cache, tx)
  /\ recent' = Append(RemoveFirst(recent, tx), tx)
  /\ UNCHANGED fetching

(* txout: it is not, and _load asks bitcoind ... *)
Miss(tx) ==
  /\ fetching = NoTx
  /\ ~Contains(cache, tx)
  /\ fetching' = tx
  /\ UNCHANGED <<cache, recent>>

(* ... whose answer is stored, at the cost of the oldest entry ... *)
Load ==
  /\ fetching # NoTx
  /\ cache' = Evicted(Append(cache, fetching))
  /\ recent' = Append(RemoveFirst(recent, fetching), fetching)
  /\ fetching' = NoTx

(* ... or raises, which leaves the cache as it was. *)
LoadFails ==
  /\ fetching # NoTx
  /\ fetching' = NoTx
  /\ UNCHANGED <<cache, recent>>

(* Looked up and answered: _load puts the transaction into the cache. *)
Found(tx) == Hit(tx) \/ (fetching = tx /\ Load)

-----------------------------------------------------------------------------
(* Properties *)

(* What is cached are the MaxSize transactions looked up last, in that     *)
(* order: however look-ups and failed requests follow each other,          *)
(* a transaction is forgotten only after MaxSize others were looked up,    *)
(* none is stored twice, and none that could be kept is evicted.           *)
KeepsMostRecent ==
  LET first == IF Len(recent) > MaxSize THEN Len(recent) - MaxSize + 1 ELSE 1
  IN  cache = SubSeq(recent, first, Len(recent))

=============================================================================
