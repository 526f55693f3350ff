---------------------------- MODULE MCHostLedger ----------------------------
(***************************************************************************)
(* HostLedger over a persistent and a temporary entry of one contract, and *)
(* calls that read, write and restore them; and over its code alone, and   *)
(* calls that upload and restore it.                                       *)
(***************************************************************************)
EXTENDS HostLedger

MCLimits == [size |-> 9]
MCKindOf == [k \in Keys |-> IF k = "temp" THEN "temporary" ELSE "persistent"]
MCSizeOf == [v \in Values |-> IF v = "long" THEN 2 ELSE 1]
\* A long temporary entry is above the network's limit.
MCSizeLimit == [k \in Keys |-> IF k = "temp" THEN 1 ELSE 2]

\* One stroop for each ledger of life added, for every entry alike, and one for
\* each byte an entry that was there has grown by.
MCRentFee(changes, seq) ==
  FoldLeft(LAMBDA sum, c :
             IF c.oldLiveUntil = NoEntry THEN sum + c.newLiveUntil - (seq - 1)
             ELSE sum + (c.newLiveUntil - c.oldLiveUntil) + MaxOf(0, c.newSize - c.oldSize),
           0, changes)

\* A call over the data that reads the temporary entry; one that restores the
\* data, under a cap on the rent, and one that declares a byte less, which is too
\* few for long data; one over the temporary entry that reads the data.
Run == [readOnly |-> <<"temp">>, readWrite |-> <<"data">>, marked |-> {},
        diskReadBytes |-> 0, writeBytes |-> 2, maxRefundable |-> None]
RestoreData == [Run EXCEPT !.marked = {0}, !.diskReadBytes = 2, !.maxRefundable = 2]
UnderDeclared == [RestoreData EXCEPT !.diskReadBytes = 1, !.writeBytes = 1]
WriteTemporary == [Run EXCEPT !.readOnly = <<"data">>, !.readWrite = <<"temp">>]

MCCalls == {Run, RestoreData, UnderDeclared, WriteTemporary}
MCRequests == {<<"data">>, <<"temp", "data">>}

\* A call that uploads, or finds, the code, and one that restores it.
Upload == [Run EXCEPT !.readOnly = <<>>, !.readWrite = <<"code">>]
RestoreCode == [Upload EXCEPT !.marked = {0}, !.diskReadBytes = 2]
TimeCalls == {Upload, RestoreCode}
=============================================================================
