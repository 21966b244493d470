------------------------------- MODULE Routing -------------------------------
(* What registering handlers does to a router (router.go: Use, Bind,         *)
(* PublicBind, UseOpen, UseClose), and what the registrations mean for the   *)
(* messages (Context.Next, Router.Handle), for reverse routing (Lookup) and  *)
(* for gateways (RouteDescriptors).  Registration is a program's setup: one  *)
(* goroutine.                                                                *)
(*                                                                           *)
(* A pattern or a path is a sequence of segments; a pattern may end in Rest, *)
(* which stands for the rest of any path ("/api/**").  Parameters and the    *)
(* regular expressions of single segments are left out.                      *)
EXTENDS Naturals, Sequences, SequencesExt

CONSTANTS
    Routers,   \* numbered: a router is only mounted in one of a smaller number
    Funcs,     \* handlers that are plain functions
    Openers,   \* handlers that are objects and implement OpenHandler
    Closers,   \* those that implement CloseHandler; many implement both
    Segments,
    Rest,
    Patterns,  \* the patterns the program binds
    Lists,     \* the handlers it binds together
    Metas,     \* values of WithMetadata, or none
    MaxBinds,  \* bound on the registrations
    Recovers,  \* TRUE: the program goes on after a registration that panicked
    None

ASSUME RoutingAssumption ==
    /\ Routers \subseteq Nat /\ IsFiniteSet(Routers)
    /\ Routers \cap (Funcs \cup Openers \cup Closers) = {}
    /\ Funcs \cap (Openers \cup Closers) = {}
    /\ Lists \subseteq Seq(Funcs \cup Openers \cup Closers \cup Routers) \ {<<>>}
    /\ Rest \notin Segments
    /\ \A p \in Patterns :
          p \in Seq(Segments \cup {Rest}) /\ \A i \in 1..Len(p)-1 : p[i] # Rest
    /\ MaxBinds \in Nat
    /\ Recovers \in BOOLEAN
    /\ None \notin Seq(Segments \cup {Rest})

VARIABLES
    nodes,     \* the HandlerNodes of each router, in chain order
    opens,     \* its open handlers, in chain order
    closes,    \* its close handlers, in chain order
    descs,     \* its routeDescriptors, and with them routeDescriptorMap
    published, \* history: what PublicBind was called with, for each router
    given,     \* history: what UseOpen or UseClose was called with by the program
    binds      \* number of registrations so far

vars == <<nodes, opens, closes, descs, published, given, binds>>

-----------------------------------------------------------------------------
(* Patterns *)

HasRest(p) == p # <<>> /\ Last(p) = Rest

(* strings.TrimSuffix(path, "/**") *)
Mount(p) == IF HasRest(p) THEN Front(p) ELSE p

(* the mount path Use makes of its first argument, "/" when there is none *)
Under(p) == Append(Mount(p), Rest)

MatchPattern(p, path) == IF HasRest(p) THEN IsPrefix(Mount(p), path) ELSE p = path

-----------------------------------------------------------------------------
(* Registration *)

Patterned(ds) == {d.pattern : d \in Range(ds)}

(* mutant: the last to publish a pattern keeps it                            *)
AddReplacing(ds, p, meta) ==
    Append(SelectSeq(ds, LAMBDA d : d.pattern # p), [pattern |-> p, meta |-> meta])

(* addRouteDescriptor: the first to publish a pattern keeps it *)
AddRouteDescriptor(ds, p, meta) ==
    IF p \in Patterned(ds) THEN ds ELSE Append(ds, [pattern |-> p, meta |-> meta])

(* mutant: the descriptors are taken over without the mount path             *)
CollectUnprefixed(ds, p, h) ==
    IF h \notin Routers THEN ds ELSE
    FoldLeft(LAMBDA acc, d : AddRouteDescriptor(acc, d.pattern, d.meta), ds, descs[h])

(* A router takes over the descriptors its new sub-router has at this time.  *)
Collect(ds, p, h) ==
    IF h \notin Routers THEN ds ELSE
    FoldLeft(LAMBDA acc, d : AddRouteDescriptor(acc, Mount(p) \o d.pattern, d.meta),
             ds, descs[h])

(* bind does so for every router among the handlers that are bound together. *)
CollectAll(ds, p, hs) == FoldLeft(LAMBDA acc, h : Collect(acc, p, h), ds, hs)

(* Of the handlers bound together, those that have the hook; routers have both.*)
Hooks(able, hs) ==
    FoldLeft(LAMBDA acc, h : IF h \in able \cup Routers THEN Append(acc, h) ELSE acc, <<>>, hs)

(* mutant: one type switch for both interfaces, the second one is not reached*)
AddFirstHook(r, hs) ==
    /\ opens' = [opens EXCEPT ![r] = @ \o Hooks(Openers, hs)]
    /\ closes' = [closes EXCEPT ![r] = @ \o
           SelectSeq(Hooks(Closers, hs), LAMBDA h : h \notin Openers \cup Routers)]

(* mutant: a router is put in the chain of messages only                     *)
AddHooksOfObjects(r, hs) ==
    /\ opens' = [opens EXCEPT ![r] = @ \o SelectSeq(hs, LAMBDA h : h \in Openers)]
    /\ closes' = [closes EXCEPT ![r] = @ \o SelectSeq(hs, LAMBDA h : h \in Closers)]

AddHooks(r, hs) ==
    /\ opens' = [opens EXCEPT ![r] = @ \o Hooks(Openers, hs)]
    /\ closes' = [closes EXCEPT ![r] = @ \o Hooks(Closers, hs)]

(* mutant: a handler whose hooks were registered is not put in the chain     *)
AddNodeUnhooked(r, p, hs) ==
    nodes' = [nodes EXCEPT ![r] =
        Append(@, [pattern |-> p, handlers |-> SelectSeq(hs, LAMBDA h : h \in Funcs)])]

AddNode(r, p, hs) == nodes' = [nodes EXCEPT ![r] = Append(@, [pattern |-> p, handlers |-> hs])]

Register == binds < MaxBinds /\ binds' = binds + 1

Handlers(r) == Funcs \cup Openers \cup Closers \cup {s \in Routers : s > r}
HandlerLists(r) == {hs \in Lists : Range(hs) \subseteq Handlers(r)}
RouterAt(hs) == {i \in DOMAIN hs : hs[i] \in Routers}

Bind(r, p, hs) ==
    /\ Register
    /\ descs' = [descs EXCEPT ![r] = CollectAll(@, p, hs)]
    /\ AddHooks(r, hs)
    /\ AddNode(r, p, hs)
    /\ UNCHANGED <<published, given>>

Use(r, p, hs) == Bind(r, Under(p), hs)

Publish(r, p, meta) ==
    /\ descs' = [descs EXCEPT ![r] = AddRouteDescriptor(@, p, meta)]
    /\ published' = published \cup {<<r, p>>}

PublicBind(r, p, meta, hs) ==
    /\ RouterAt(hs) = {}
    /\ Register
    /\ Publish(r, p, meta)
    /\ AddHooks(r, hs)
    /\ AddNode(r, p, hs)
    /\ UNCHANGED given

(* PublicBind of a router panics when it comes to the first router: what was *)
(* registered until then stays, and the node is never appended.              *)
PublicBindPanics(r, p, meta, hs) ==
    /\ Recovers
    /\ RouterAt(hs) # {}
    /\ Register
    /\ Publish(r, p, meta)
    /\ \E i \in RouterAt(hs) :
          (\A j \in RouterAt(hs) : i <= j) /\ AddHooks(r, SubSeq(hs, 1, i))
    /\ UNCHANGED <<nodes, given>>

(* UseOpen and UseClose take what implements their interface, or a function. *)
UseOpen(r, h) ==
    /\ h \in Funcs \cup Openers \cup Routers
    /\ Register
    /\ opens' = [opens EXCEPT ![r] = Append(@, h)]
    /\ given' = given \cup {<<r, h>>}
    /\ UNCHANGED <<nodes, closes, descs, published>>

UseClose(r, h) ==
    /\ h \in Funcs \cup Closers \cup Routers
    /\ Register
    /\ closes' = [closes EXCEPT ![r] = Append(@, h)]
    /\ given' = given \cup {<<r, h>>}
    /\ UNCHANGED <<nodes, opens, descs, published>>

-----------------------------------------------------------------------------
(* What the registrations mean *)

HandlersOf(node) == Range(node.handlers)

(* The functions a message with this path may come to when every handler     *)
(* calls Next: a mounted router matches the whole path again.                *)
Reached(path) ==
    LET f[r \in Routers] ==
            UNION {IF h \in Routers THEN f[h] ELSE {h} :
                   h \in UNION {HandlersOf(n) :
                                n \in {m \in Range(nodes[r]) : MatchPattern(m.pattern, path)}}}
    IN f

(* mutant: mounted routers are not searched                                  *)
LookupFlat(target) ==
    [r \in Routers |->
        LET bound == {n \in Range(nodes[r]) : target \in HandlersOf(n)}
        IN IF bound = {} THEN None ELSE (CHOOSE n \in bound : TRUE).pattern]

(* Lookup: depth first, in chain order; None when it is not found *)
Lookup(target) ==
    LET f[r \in Routers] ==
            LET FirstOf(found, h, p) ==
                    IF found # None THEN found
                    ELSE IF h = target THEN p
                    ELSE IF h \in Routers THEN f[h]
                    ELSE None
                InNode(found, n) ==
                    FoldLeft(LAMBDA acc, h : FirstOf(acc, h, n.pattern), found, n.handlers)
            IN FoldLeft(InNode, None, nodes[r])
    IN f

-----------------------------------------------------------------------------
Init ==
    /\ nodes = [r \in Routers |-> <<>>]
    /\ opens = [r \in Routers |-> <<>>]
    /\ closes = [r \in Routers |-> <<>>]
    /\ descs = [r \in Routers |-> <<>>]
    /\ published = {}
    /\ given = {}
    /\ binds = 0

Binds(r) ==
    \E hs \in HandlerLists(r), p \in Patterns :
        \/ Bind(r, p, hs)
        \/ Use(r, p, hs)
        \/ \E meta \in Metas : PublicBind(r, p, meta, hs) \/ PublicBindPanics(r, p, meta, hs)

Next == \E r \in Routers : Binds(r) \/ \E h \in Handlers(r) : UseOpen(r, h) \/ UseClose(r, h)

Spec == Init /\ [][Next]_vars

-----------------------------------------------------------------------------
(* Properties *)

Descriptor == [pattern : Seq(Segments \cup {Rest}), meta : Metas \cup {None}]

(* Every variable has the shape of the Go field it stands for.               *)
TypeOK ==
    /\ \A r \in Routers :
        /\ \A i \in DOMAIN nodes[r] : nodes[r][i].handlers \in HandlerLists(r)
        /\ opens[r] \in Seq(Handlers(r)) /\ closes[r] \in Seq(Handlers(r))
        /\ descs[r] \in Seq(Descriptor)
    /\ published \subseteq Routers \X Patterns
    /\ given \subseteq UNION {{r} \X Handlers(r) : r \in Routers}
    /\ binds \in 0..MaxBinds

(* What a router may advertise: what was published in it, and, under the path*)
(* they are mounted at, what its sub-routers may.                            *)
MayAdvertise ==
    LET f[r \in Routers] ==
            {p \in Patterns : <<r, p>> \in published} \cup
            UNION {UNION {{Mount(n.pattern) \o q : q \in f[h]} :
                          h \in HandlersOf(n) \cap Routers} : n \in Range(nodes[r])}
    IN f

(* "Use Bind for internal-only routes" (router.go:366-369): what a gateway is*)
(* shown was published, somewhere below, under exactly that mounted pattern. *)
AdvertisedWasPublished == \A r \in Routers : Patterned(descs[r]) \subseteq MayAdvertise[r]

(* A gateway that has read RouteDescriptors never finds a route withdrawn,   *)
(* moved, or carrying other metadata later, however often it is rebound.     *)
GatewayViewGrows == [][\A r \in Routers : IsPrefix(descs[r], descs'[r])]_vars

At(h, hs) == {i \in DOMAIN hs : hs[i] = h}
Times(h, hs) == Cardinality(At(h, hs))
TimesBound(h, r) ==
    Cardinality(UNION {{n} \X At(h, nodes[r][n].handlers) : n \in DOMAIN nodes[r]})

(* handler.go:9-21: whatever is bound gets the hooks it has, once for every  *)
(* time it is bound; of one that has both, the program gets as many open as  *)
(* close hooks if it added none itself, also where a registration was        *)
(* abandoned half-way (bind, UseOpen, UseClose).                             *)
HooksFollowHandlers ==
    \A r \in Routers :
        /\ \A h \in Openers \cup Routers : TimesBound(h, r) <= Times(h, opens[r])
        /\ \A h \in Closers \cup Routers : TimesBound(h, r) <= Times(h, closes[r])
        /\ \A h \in (Openers \cap Closers) \cup Routers :
              <<r, h>> \notin given => Times(h, opens[r]) = Times(h, closes[r])

(* the paths that tell the patterns apart: theirs, mounted or not *)
Paths == {Mount(p) : p \in Patterns} \cup {Mount(p) \o Mount(q) : p, q \in Patterns}

(* Reverse routing knows every handler that messages can come to, however    *)
(* deep it is mounted (README.md:909).                                       *)
ServedIsFound ==
    \A path \in Paths, r \in Routers : \A h \in Reached(path)[r] : Lookup(h)[r] # None

(* What a chain of hooks runs when every hook calls Next: a router in it runs*)
(* its own (HandleOpen and HandleClose of router.go).                        *)
Hooked(chain) ==
    LET f[r \in Routers] ==
            UNION {IF h \in Routers THEN f[h] ELSE {h} : h \in Range(chain[r])}
    IN f

(* Whoever can get a message of a connection is told that the connection     *)
(* opens, and that it closes, if he has the hooks: through all the routers   *)
(* that are mounted between, also what was bound after the mounting          *)
(* (README.md:1122).                                                         *)
ServedIsHooked ==
    \A path \in Paths, r \in Routers : \A h \in Reached(path)[r] :
        /\ h \in Openers => h \in Hooked(opens)[r]
        /\ h \in Closers => h \in Hooked(closes)[r]

(* router.go:384-387, "they describe the routes that this router can handle":*)
(* a message to an advertised route comes to some handler, in a router whose *)
(* sub-routers are mounted as documented, under a path with a "/**".         *)
AdvertisedIsServed ==
    \A r \in Routers :
        (\A n \in Range(nodes[r]) : HandlersOf(n) \cap Routers # {} => HasRest(n.pattern))
            => \A p \in Patterned(descs[r]) : Reached(Mount(p))[r] # {}
=============================================================================
