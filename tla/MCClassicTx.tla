---------------------------- MODULE MCClassicTx -----------------------------
(***************************************************************************)
(* ClassicTx over two accounts, up to three keys and envelopes chosen one  *)
(* family per question: replay and authorisation, fees and TTLs.           *)
(***************************************************************************)
EXTENDS ClassicTx

MCLimits ==
  [instructions |-> 9, diskReadBytes |-> 9, writeBytes |-> 9, footprintEntries |-> 3,
   diskReadEntries |-> 2, writeEntries |-> 2, refusedKeys |-> {}, size |-> 9]

\* "acct" stands for the account entries a transfer declares.
MCKindOf == [acct |-> "classic", data |-> "persistent", temp |-> "temporary"]
MCSizeLimit == [k \in Keys |-> 2]

\* One stroop for each ledger of life added, for every entry alike, and one for
\* each byte an entry that was there has grown by.
MCRentFee(changes, seq) ==
  FoldLeft(LAMBDA sum, c :
             IF c.oldLiveUntil = NoEntry THEN sum + c.newLiveUntil - (seq - 1)
             ELSE sum + (c.newLiveUntil - c.oldLiveUntil) + MaxOf(0, c.newSize - c.oldSize),
           0, changes)

Sig(k, h) == [signer |-> Ed25519(k), over |-> h]
-----------------------------------------------------------------------------
Rich == [balance |-> 200, seqNum |-> 0, numSubEntries |-> 0, master |-> 1, low |-> 0,
         medium |-> 0, signers |-> <<>>, seqLedger |-> 0, seqTime |-> 0]
\* A fee of 30 leaves it 5 above its reserve of 20.
Poor == [Rich EXCEPT !.balance = 55]
\* Its own key suffices for LOW; MEDIUM takes b as well.
Joint == [Rich EXCEPT !.low = 1, !.medium = 2,
                      !.signers = <<[key |-> Ed25519("b"), weight |-> 1]>>]

MCSignerLists == {<<>>, Joint.signers}

Plain ==
  [hash |-> "h1", source |-> "a", opSource |-> None, seqNum |-> 1, fee |-> 30,
   ops |-> <<"invoke">>, memo |-> FALSE, muxed |-> FALSE, sorobanData |-> TRUE,
   resourceFee |-> 20, readOnly |-> <<>>, readWrite |-> <<>>, archived |-> <<>>,
   instructions |-> 1, diskReadBytes |-> 5, writeBytes |-> 5,
   cost |-> [nonRefundable |-> 12, refundable |-> 2], size |-> 1, extendTo |-> 0,
   minTime |-> 0, maxTime |-> 0, minLedger |-> 0, maxLedger |-> 0, minSeqNum |-> None,
   minSeqAge |-> 0, minSeqLedgerGap |-> 0, extraSigners |-> <<>>, sigs |-> <<Sig("a", "h1")>>,
   transfers |-> {}, feeSource |-> None, bumpHash |-> "none", bumpFee |-> 0, bumpSigs |-> <<>>]

\* e under another hash, signed by those who signed it.
Rehashed(e, h) == [e EXCEPT !.hash = h, !.sigs = [i \in DOMAIN e.sigs |-> [e.sigs[i] EXCEPT !.over = h]]]
SignedBy(e, keys) == [e EXCEPT !.sigs = [i \in DOMAIN keys |-> Sig(keys[i], e.hash)]]
Bumped(e, payer, fee) ==
  [e EXCEPT !.feeSource = payer, !.bumpHash = "bump", !.bumpFee = fee,
            !.bumpSigs = <<Sig(payer, "bump")>>]

\* Replay and authorisation.
Second == Rehashed([Plain EXCEPT !.seqNum = 2], "h2")
Relaxed == Rehashed([Plain EXCEPT !.seqNum = 3, !.minSeqNum = 0], "h3")
Spaced == Rehashed([Plain EXCEPT !.seqNum = 2, !.minSeqLedgerGap = 1, !.maxLedger = 3], "h4")
OtherOpSource == SignedBy(Rehashed([Second EXCEPT !.opSource = "b"], "h5"), <<"a", "b">>)
WithExtra ==
  SignedBy(Rehashed([Plain EXCEPT !.extraSigners = <<Ed25519("b")>>, !.minTime = 5], "h6"),
           <<"a", "b">>)

ReplayEnvelopes ==
  {Plain, Second, Relaxed, Spaced, OtherOpSource, WithExtra,
   SignedBy(Plain, <<"a", "b">>), SignedBy(Plain, <<>>),
   [WithExtra EXCEPT !.sigs = <<Sig("a", "h6"), Sig("b", "h1")>>],
   Bumped(Plain, "b", 40), Bumped(SignedBy(Relaxed, <<"a", "b">>), "b", 45),
   [Bumped(Second, "b", 40) EXCEPT !.bumpSigs = <<Sig("b", "h2")>>]}

ReplayAccounts == {Rich, Joint}
MCNoEntries == [k \in Keys |-> 0]
-----------------------------------------------------------------------------
\* Fees and TTLs.
Footprinted(ops, ro, rw) == [Plain EXCEPT !.ops = ops, !.readOnly = ro, !.readWrite = rw]
Transfer(from, to, amount) == [from |-> from, to |-> to, amount |-> amount]

\* All that the fee leaves over the reserve; and more than the refund
\* makes good.
Pay == [Rehashed(Footprinted(<<"invoke">>, <<>>, <<"acct">>), "h2")
          EXCEPT !.transfers = {Transfer("a", "b", 150), Transfer("a", "b", 160)}]
Store == Rehashed(Footprinted(<<"invoke">>, <<>>, <<"data">>), "h3")
Extend == Rehashed([Footprinted(<<"extend">>, <<"data">>, <<>>) EXCEPT !.extendTo = 3], "h4")
\* Declares 2 for a rent of up to 3, and bids no more than it must.
ShortExtend == Rehashed([Extend EXCEPT !.resourceFee = 14, !.fee = 24], "h5")
Restore == Rehashed([Footprinted(<<"restore">>, <<>>, <<"data">>) EXCEPT !.seqNum = 2], "h6")
\* Declares one byte of the two it may write.
SmallRestore == Rehashed([Restore EXCEPT !.writeBytes = 1, !.seqNum = 1], "h7")
TooFar == Rehashed([Extend EXCEPT !.extendTo = 4], "h8")
Underpriced == Rehashed([Plain EXCEPT !.resourceFee = 13], "h9")

FeeEnvelopes ==
  {Pay, Store, Extend, ShortExtend, Restore, SmallRestore, TooFar, Underpriced,
   [Bumped(Pay, "b", 40) EXCEPT !.transfers = {Transfer("b", "a", 140)}],
   Bumped(Extend, "b", 39)}

FeeAccounts == {Rich, Poor}
FeeEntries == [acct |-> 0, data |-> 2]
=============================================================================
