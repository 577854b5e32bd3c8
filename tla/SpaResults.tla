------------------------------ MODULE SpaResults ------------------------------
(***************************************************************************)
(* Results of the library's calls: a negative error, a success with a      *)
(* value, or a success with the sequence number of an answer to come,      *)
(* told apart by the two top bits.  AsyncBit is 2^30 in the library.       *)
(***************************************************************************)
EXTENDS Integers

CONSTANT AsyncBit

ASSUME SpaResultsAssumption == AsyncBit \in Nat \ {0}

(* The values of the C type: as many below zero as not, AsyncBit the       *)
(* highest bit below the sign.                                             *)
Raw == (-2 * AsyncBit) .. (2 * AsyncBit - 1)

(* async_seq: val & SPA_ASYNC_SEQ_MASK. *)
SeqBits(val) == val % AsyncBit

(* is_async: the sign bit clear and the bit below it set. *)
IsAsync(val) == val \in AsyncBit .. (2 * AsyncBit - 1)

(* AsyncSeq::from_seq. *)
FromSeq(seq) == AsyncBit + SeqBits(seq)

Sync(v)  == [is |-> "Sync", val |-> v]
Async(v) == [is |-> "Async", val |-> v]
Err(e)   == [is |-> "Err", val |-> e]
Panic    == [is |-> "Panic", val |-> 0]

(* Mutant: the wrong bits of the number are kept. *)
FromRawMasked(val) == IF IsAsync(val) THEN Async(AsyncBit) ELSE Panic

(* AsyncSeq::from_raw: a debug build asserts that the number is one.  Its  *)
(* equality compares all of it.                                            *)
FromRaw(val) == IF IsAsync(val) THEN Async(val) ELSE Panic

(* -self.0 overflows for the least value, which a debug build refuses. *)
IntoResult(res) ==
  IF res < 0 THEN IF -res \in Raw THEN Err(-res) ELSE Panic
  ELSE IF IsAsync(res) THEN FromRaw(res) ELSE Sync(res)

IntoAsyncResult(res) == IF IntoResult(res).is = "Sync" THEN Panic ELSE IntoResult(res)
IntoSyncResult(res)  == IF IntoResult(res).is = "Async" THEN Panic ELSE IntoResult(res)

=============================================================================
