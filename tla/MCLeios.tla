------------------------------- MODULE MCLeios -------------------------------
(* Instances of LeiosSession for TLC. *)
EXTENDS LeiosSession

CONSTANTS e1, e2    \* two endorser blocks

MCPoints == {e1, e2}

\* Nothing, every action alone and after a notification, the two that leave a
\* request unanswered before one, and a list longer than the client asks for.
MCNotifyScripts ==
    {<<>>, <<"Wait", "Votes">>, <<"RawBytes", "Votes">>,
     <<"BlockOffer", "Votes", "BlockTxsOffer">>}
    \cup {<<a>> : a \in Actions} \cup {<<"BlockOffer", a>> : a \in Actions}

MCFetchLists == {<<>>, <<e1, e2>>}

Failing == {Rule("Any", send, Nil, 0) : send \in {"Wait", "Disconnect", "RawBytes", "Invalid"}}

\* No rule, one that fails at the first or at the second request, blocks in
\* order, out of order, repeated, and a rule that is passed over.
MCFetchScripts ==
    {<<>>, <<Rule("FetchBlock", "Block", e2, 0), Rule("Any", "Block", e1, 0)>>,
     <<[Rule("FetchBlock", "Block", e2, 0) EXCEPT !.repeatable = TRUE]>>,
     <<Rule("Done", "Block", e2, 0), Rule("FetchBlock", "Block", e1, 0),
       Rule("FetchBlock", "Block", e2, 0)>>}
    \cup {[i \in 1..2 |-> Rule("FetchBlock", "Block", IF i = 1 THEN e1 ELSE e2, 0)]}
    \cup {<<r>> : r \in Failing}
    \cup {<<Rule("FetchBlock", "Block", e1, 0), r>> : r \in Failing}

WaitScripts == {<<"Wait", "Votes">>, <<"BlockOffer", "Wait", "Votes">>}
=============================================================================
