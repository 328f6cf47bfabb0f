----------------------------- MODULE MCBrowser -----------------------------
(* Small instances of the parts of Browser: what a record or a function    *)
(* makes of a CONSTANT, which a .cfg cannot write.                          *)
EXTENDS Browser, TLC

\* LinkListing: deliveries of two files of which something is wrong, or
\* nothing; alone, or before or after one in which nothing is.
NoList == <<"no roster">>
Row(i) == [id |-> i, name |-> "sealed", fits |-> TRUE, here |-> TRUE]
Delivery(list, files) ==
    [opens |-> TRUE, note |-> "", old |-> FALSE, roster |-> list, files |-> files]
AB == <<"a", "b">>
Singles ==
    {Delivery(AB, <<Row("a"), Row("b")>>), Delivery(AB, <<Row("b"), Row("a")>>),
     Delivery(AB, <<Row("a")>>), Delivery(AB, <<Row("a"), Row("b"), Row("x")>>),
     Delivery(AB, <<Row("a"), Row("a")>>), Delivery(AB, <<>>),
     Delivery(AB, <<Row("a"), [Row("b") EXCEPT !.fits = FALSE]>>),
     Delivery(AB, <<[Row("a") EXCEPT !.here = FALSE], Row("b")>>),
     Delivery(AB, <<Row("b"), [Row("a") EXCEPT !.name = "damaged"]>>),
     Delivery(NoList, <<Row("a"), Row("b")>>),
     [Delivery(AB, <<Row("a")>>) EXCEPT !.old = TRUE]}
Fine == Delivery(<<"c">>, <<Row("c")>>)
Inboxes ==
    {<<[d EXCEPT !.note = "fine"]>> : d \in Singles}
        \cup {<<d, Fine>> : d \in Singles} \cup {<<Fine, d>> : d \in Singles}
        \cup {<<>>, <<[Fine EXCEPT !.note = "damaged"]>>,
              <<[Fine EXCEPT !.opens = FALSE], Fine>>, <<Fine, [Fine EXCEPT !.opens = FALSE]>>}
MCAnswers == {<<d>> : d \in Singles} \cup Inboxes

\* HistoryPage: a group of two rows between two others.
MCGroup == <<0, 1, 1, 0>>
MCHits == ("" :> 1 .. 4) @@ ("a" :> {1, 2}) @@ ("b" :> {2, 3, 4})

\* Container: three chunks, two, and the one of an empty file.
MCSize == ("a" :> 6) @@ ("b" :> 3) @@ ("c" :> 0)

\* ZipArchive: a name, and the names it is given when it is taken.
MCNameSet == {<<"scan", <<>>, "pdf">>, <<"scan", <<2>>, "pdf">>, <<"scan", <<2, 2>>, "pdf">>}
=============================================================================
