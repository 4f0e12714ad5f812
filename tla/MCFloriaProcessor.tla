-------------------------- MODULE MCFloriaProcessor --------------------------
(***************************************************************************)
(* Instances of FloriaProcessor: transactions of a user, of a second user  *)
(* who is also the coinbase, and internal ones of the zero address.        *)
(***************************************************************************)
EXTENDS FloriaProcessor

Plain == [sender |-> "user", create |-> FALSE, recipient |-> "miner", nonce |-> 0, value |-> 0,
          gasLimit |-> 30000, gasFeeCap |-> 2, gasTipCap |-> 1, blobs |-> NoBlobs, validBlobs |-> TRUE,
          blobGasFeeCap |-> 0, zeros |-> 0, nonZeros |-> 0, addresses |-> 0, keys |-> 0]

\* Around the gas limit, the price and the value a sender can just afford.
Shapes ==
  {[Plain EXCEPT !.sender = s, !.value = v] : s \in {"user", "miner", "zero"}, v \in {0, 7}}
  \cup {[Plain EXCEPT !.gasLimit = g] : g \in {20999, 21000, 50000}}
  \cup {[Plain EXCEPT !.gasFeeCap = f, !.gasTipCap = t] : f \in {0, 1, 3}, t \in {0, 2, 3}}
  \cup {[Plain EXCEPT !.create = TRUE, !.gasLimit = g, !.gasFeeCap = 1, !.value = v, !.nonZeros = 33] :
          g \in {53532, 53600}, v \in {0, 7}}
  \cup {[Plain EXCEPT !.gasLimit = 40000, !.zeros = 3, !.addresses = 1, !.keys = 2]}

BlobShapes ==
  {[Plain EXCEPT !.blobs = b, !.validBlobs = ok, !.blobGasFeeCap = f, !.create = c] :
     b \in {1, 2}, ok \in BOOLEAN, f \in {1, 2}, c \in BOOLEAN}
  \cup {[Plain EXCEPT !.blobs = 0]}

Numbered(shapes) == {[t EXCEPT !.nonce = n] : t \in shapes, n \in {0, 1}}

AllTransactions == Numbered(Shapes \cup BlobShapes)
BlobTransactions == Numbered({Plain} \cup BlobShapes)

BlockOf(r, f, b) == [revision |-> r, baseFee |-> f, blobBaseFee |-> b]
PlainBlocks == {BlockOf(R07_Istanbul, 0, 0), BlockOf(R10_London, 1, 0), BlockOf(R12_Shanghai, 1, 0)}
BlobBlocks == {BlockOf(R13_Cancun, 0, 1), BlockOf(R13_Cancun, 1, 2)}
AllBlocks == PlainBlocks \cup BlobBlocks

\* Just not enough for a create and its value, enough for one transaction, or for
\* one or two blobs.
AllBalances == {[a \in Account |-> IF a = "user" THEN u ELSE 60007] :
                  u \in {53605, 60000, 191072, 400000}}
LowBalances == {[a \in Account |-> IF a = "user" THEN 60000 ELSE 5]}
=============================================================================
