------------------------- MODULE MCSignatureChecker -------------------------
(***************************************************************************)
(* SignatureChecker over every list of up to three signatures from three   *)
(* ed25519 keys, one of them over another transaction, a HASH_X preimage   *)
(* and a signed payload, asked about accounts with weights on both sides   *)
(* of the thresholds and of the 255 cap.                                   *)
(***************************************************************************)
EXTENDS SignatureChecker

CONSTANTS MaxSigs

HashX   == [type |-> "hashX", id |-> "x"]
Payload == [type |-> "signedPayload", id |-> [key |-> "a", payload |-> "p"]]

MCContents == "this"

MCSignatures ==
  {[signer |-> Ed25519("a"), over |-> "this"], [signer |-> Ed25519("b"), over |-> "this"],
   [signer |-> Ed25519("b"), over |-> "other"], [signer |-> HashX, over |-> "x"],
   [signer |-> Payload, over |-> "p"]}

MCSignatureLists == BoundedSeq(MCSignatures, MaxSigs)

MCSignerLists ==
  {AccountSigners("a", [master |-> 1, signers |-> <<>>]),
   AccountSigners("a", [master |-> 0, signers |-> <<[key |-> Ed25519("b"), weight |-> 1]>>]),
   AccountSigners("b", [master |-> 1, signers |-> <<[key |-> Ed25519("a"), weight |-> 2]>>]),
   AccountSigners("c", [master |-> 255, signers |-> <<[key |-> HashX, weight |-> 1],
                                                      [key |-> Ed25519("b"), weight |-> 300]>>]),
   <<[key |-> Payload, weight |-> 1], [key |-> HashX, weight |-> 1]>>,
   <<[key |-> PreAuthTx("this"), weight |-> 1], [key |-> Ed25519("a"), weight |-> 1]>>,
   <<[key |-> PreAuthTx("other"), weight |-> 1]>>}

MCNeeds == {0, 1, 2, 255}
=============================================================================
