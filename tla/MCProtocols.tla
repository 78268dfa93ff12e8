---------------------------- MODULE MCProtocols ----------------------------
(***************************************************************************)
(* What clients say in the model of Protocols: each kind of handshake, and *)
(* good, empty, malformed and oversized messages of each protocol.         *)
(***************************************************************************)
EXTENDS Protocols

Ev(e) == U("ev", e)
Bad == U("bad", 0)
Header(kind, n) == <<U("method", 0), U(kind, n)>>

(* Framing, as the clients do it.                                          *)
RawFrame(p) == <<U("nul", 0), U("len", Len(p))>> \o p
WsFrame(p) == <<U("text", 0), U("mask", Len(p)), U("key", 0)>> \o p
WsMedium(p) == <<U("text", 0), U("mask126", 0), U("len", Len(p)), U("key", 0)>> \o p
WsLong(p) == <<U("text", 0), U("mask127", 0), U("nul", 0), U("len", Len(p)), U("key", 0)>> \o p

Msg(when, units, evs) == [when |-> when, units |-> units, evs |-> evs]

FirstMessages ==
  {Msg("first", u, <<>>) : u \in {RawOhai, FlashRequest, <<U("other", 0)>>,
                                  <<U("other", 0), U("get", 0)>>}}
UpgradeMessages == {Msg("alone", Header(k, 0), <<>>) : k \in {"upgrade", "badupgrade"}}
HttpMessages(e) ==
  {Msg("http", Header("post", 0), <<>>),
   Msg("http", Header("post", 1) \o <<Ev(e)>>, <<e>>),
   Msg("http", Header("post", 2) \o <<Ev(e), Bad>>, <<e>>),
   Msg("http", Header("post", 2) \o <<Bad, Ev(e)>>, <<>>),
   Msg("http", Header("get", 1) \o <<Ev(e)>>, <<>>),
   Msg("http", Header("nolength", 0), <<>>),
   Msg("http", Header("junk", 0), <<>>)}
RawMessages(e) ==
  {Msg("raw", RawFrame(<<Ev(e)>>), <<e>>),
   Msg("raw", RawFrame(<<Bad>>), <<>>),
   Msg("raw", RawFrame(<<>>), <<>>),
   Msg("raw", <<U("ff", 0), U("huge", 0)>>, <<>>)}
WsMessages(e) ==
  {Msg("upgraded", WsFrame(RawOhai), <<>>),
   Msg("upgraded", WsFrame(<<Ev(e)>>), <<>>)}
  \cup {Msg("ws", f, <<e>>) : f \in {WsFrame(<<Ev(e)>>), WsMedium(<<Ev(e)>>), WsLong(<<Ev(e)>>)}}
  \cup {Msg("ws", f, <<>>) : f \in
          {WsFrame(<<Bad>>), WsFrame(<<>>), WsFrame(<<U("binary", 0)>>),
           <<U("text", 0), U("mask127", 0), U("ff", 0), U("huge", 0), U("key", 0)>>,
           <<U("text", 0), U("nomask", 1), Ev(e)>>,
           <<U("ping", 0), U("mask", 0), U("key", 0)>>,
           <<U("close", 0), U("mask", 0), U("key", 0)>>}}
MCMessages ==
  [e \in 0 .. MaxMsgs |->
    FirstMessages \cup UpgradeMessages \cup HttpMessages(e) \cup RawMessages(e) \cup WsMessages(e)]
=============================================================================
