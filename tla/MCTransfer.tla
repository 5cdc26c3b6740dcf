----------------------------- MODULE MCTransfer -----------------------------
(***************************************************************************)
(* The files of a manifest are uploaded, and then downloaded elsewhere.    *)
(***************************************************************************)
EXTENDS Download, TLC

\* e1's copy has the name of e2; e3 has two chunks, the first the content of e1;
\* its manifest path is e3's place, where a longer file may be.
Manifest == [e1 |-> <<"A">>, e2 |-> <<"B">>, e3 |-> <<"A", "C">>]
Names    == [e1 |-> "a", e2 |-> "a (1)", e3 |-> "v"]
Sizes    == [e1 |-> 1, e2 |-> 1, e3 |-> 2]
OneLink  == {"l"}
CopyNames == [p \in {"a", "a (1)", "v"} |-> CASE p = "a"     -> <<"a (1)", "a (2)">>
                                              [] p = "a (1)" -> <<"a (1) (1)">>
                                              [] p = "v"     -> <<"v (1)">>]

\* What is at the destination already.
Others(n) == [k \in 1 .. n |-> Mine]
Before == {[p \in Destinations |->
              CASE p = "a" -> f[1] [] p = "v" -> f[2] [] p = "l" -> f[3] [] OTHER -> NoFile] :
            f \in {<<NoFile, NoFile, NoFile>>, <<Others(1), NoFile, NoFile>>, <<NoFile, Others(3), NoFile>>,
                   <<Others(1), Others(3), OldLink>>, <<NoFile, NoFile, Others(1)>>}}

\* Bound: other uploads have left nothing, or one object of another length.
NoObjects == [h \in Content |-> Missing]
OneShort  == [NoObjects EXCEPT !["A"] = Short]

Init ==
  /\ \E objects \in {NoObjects, OneShort} : UploadInit(objects)
  /\ DownloadInit

Spec == Init /\ [][TransferNext]_transferVars /\ TransferFairness

=============================================================================
