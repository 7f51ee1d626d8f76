---------------------------- MODULE MCServerConn ----------------------------
(***************************************************************************)
(* Instances of ServerConn for TLC.                                        *)
(***************************************************************************)
EXTENDS ServerConn, TLC

CONSTANTS c1, c2, w1, w2, o1, gentle, notifier, rough

\* what each kind of client may send: requests and at last a broken header;
\* requests without a reply; anything
MCSpeaks == [k \in Client |-> CASE k = gentle -> {"invoke", "garbled"}
                                [] k = notifier -> {"oneway"}
                                [] k = rough -> Message]
=============================================================================
