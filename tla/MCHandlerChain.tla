--------------------------- MODULE MCHandlerChain ---------------------------
(* HandlerChain on small applications: a root router with middleware and a   *)
(* router mounted in it, one message, or three of one conversation.          *)
EXTENDS HandlerChain, TLC

CONSTANTS m1, m2, m3, i1, a, b, f, g, h, w, json, msgpack, root, sub, v1, v2

All == Paths \cup {NoPath}
N(on, hs) == [on |-> on, handlers |-> hs]
F(id, path, format) == [id |-> id, path |-> path, format |-> format]
App(kind, chain, able, protocol, sent, load) ==
    [kind |-> kind, chain |-> chain, able |-> able, protocol |-> protocol, sent |-> sent,
     load |-> load]

(* a middleware, a mounted router with two nodes, one of two handlers, and a *)
(* handler of one path                                                       *)
Mounting(first) ==
    (root :> <<N(All, first), N(All, <<sub>>), N({a}, <<h>>)>>) @@
    (sub :> <<N({a}, <<g, w>>), N(All, <<w>>)>>)

Rewriting == App("normal", Mounting(<<json, f>>),
    (f :> {"next", "again", "path", "fail", "clear"}) @@ (g :> {"next", "path"}) @@
    (w :> {"next", "fail"}) @@ (h :> {"next", "fail"}), None,
    {F(NoId, a, json), F(i1, b, json)}, 1)

Valuing == App("normal", Mounting(<<json, f>>),
    (f :> {"next", "set", "delete"}) @@ (g :> {"next", "set"}) @@
    (w :> {"next", "set"}) @@ (h :> {"next"}), None,
    {F(NoId, a, json), F(NoId, NoPath, json)}, 1)

Hooks == (root :> <<N(All, <<f>>), N(All, <<sub>>), N(All, <<h, f>>)>>) @@
         (sub :> <<N(All, <<g>>), N(All, <<w, g>>)>>)

Lifecycles == {App(kind, Hooks, [x \in Funcs |-> {"next", "again", "fail"}], None,
                      {F(NoId, NoPath, json)}, 1) :
                  kind \in {"open", "close"}}

(* two codecs, with and without a subprotocol, which one of them must refuse;*)
(* and one codec on a connection that has its subprotocol                    *)
Negotiated(codecs, protocol) ==
    App("normal", Mounting(codecs \o <<f>>), [x \in Funcs |-> {"next"}], protocol,
        {F(NoId, a, json), F(NoId, b, msgpack)}, 1)

Negotiating == {Negotiated(<<json, msgpack>>, json), Negotiated(<<json, msgpack>>, None),
                Negotiated(<<json>>, json)}

(* conversations held by handlers of the root, with a router mounted between *)
Conversing == App("normal",
    (root :> <<N(All, <<json>>), N(All, <<f>>), N(All, <<sub>>), N({a}, <<h>>)>>) @@
    (sub :> <<N({a}, <<g>>)>>),
    (f :> {"next", "receive"}) @@ (g :> {"next"}) @@ (w :> {}) @@ (h :> {"receive"}),
    None, {F(i1, a, json), F(i1, b, json)}, 3)

(* what middleware may do to a context whose message was handed over, and    *)
(* what comes of it for messages that follow                                 *)
Handing(inF, inW, load) == App("normal",
    (root :> <<N(All, <<json, w, f, h>>)>>) @@ (sub :> <<>>),
    (f :> inF) @@ (w :> inW) @@ (g :> {}) @@ (h :> {"receive"}), None, {F(i1, a, json)}, load)

HandedOver == {Handing({"next", "again", "path", "look", "receive", "clear"}, {"next"}, 2),
               Handing({"next", "path"}, {"next", "look"}, 2),
               Handing({"next", "look"}, {"next", "delete"}, 3)}

Applications == {Rewriting, Valuing, Conversing} \cup HandedOver \cup Lifecycles \cup Negotiating

(* a handler that receives behind a mounted router                           *)
ReceivingBehindRouter == {App("normal",
    (root :> <<N(All, <<json>>), N(All, <<sub>>), N({a}, <<h>>)>>) @@ (sub :> <<N(All, <<g>>)>>),
    (f :> {}) @@ (g :> {"next"}) @@ (w :> {}) @@ (h :> {"receive"}),
    None, {F(i1, a, json)}, 2)}

MsgSymmetry == Permutations(Msgs)
=============================================================================
