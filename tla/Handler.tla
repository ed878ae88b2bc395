------------------------------ MODULE Handler ------------------------------
(***************************************************************************)
(* The slog handler (handler.go, attr.go, converter.go): the handlers of   *)
(* Derivation, the attribute tree built for a record, and the payload      *)
(* around it.                                                              *)
(*                                                                         *)
(* `era` is what a LogValuer answers with at the moment. All the maps      *)
(* built for a record are fresh ones.                                      *)
(***************************************************************************)
EXTENDS Derivation, SequencesExt

CONSTANTS
    LogRecords,  \* the records handled
    Contexts,    \* what the context extractors return, one list each
    Answers      \* what a LogValuer resolves to in each era

VARIABLES
    extra,     \* what prepareExtraFields made of WithExtraFields
    era,
    out        \* the last record handled: what it was and its payload

vars == <<derivationVars, extra, era, out>>

None == [payload |-> <<>>]

-----------------------------------------------------------------------------
(* Attributes as a record finds them.                                      *)

Resolve(v) == IF v.kind = "valuer" THEN Answers[era] ELSE v
Resolved(a) == [a EXCEPT !.value = Resolve(@)]

\* Functions a user may install as ReplaceAttr: one discards an attribute, one
\* marks every value with the groups it was called with, and turns one of them
\* into a group.
ReplaceAttr(groups, a) ==
    CASE cfg.replace = "discard" -> IF a.key = "a" THEN ZeroAttr ELSE a
      [] cfg.replace = "mark" ->
           IF a.key = "b"
           THEN Attr("b", Value("group", "", <<Attr("a", Value("any", "x", <<>>))>>))
           ELSE [a EXCEPT !.value = [Value("static", @.x, <<>>) EXCEPT !.at = groups]]

\* An attribute resolved, replaced unless it is a group, and resolved again.
Rewritten(groups, a) ==
    IF cfg.replace = "none" \/ Resolve(a.value).kind = "group"
    THEN Resolved(a)
    ELSE Resolved(ReplaceAttr(groups, Resolved(a)))

ParentPath(groups, name) == groups
ChildPath(groups, name) == Append(groups, name)

-----------------------------------------------------------------------------
(* treeBuilder.                                                            *)

RECURSIVE AppendAttr(_, _, _)
AppendAll(dst, groups, attrs) ==
    FoldLeft(LAMBDA m, a : AppendAttr(m, groups, a), dst, attrs)

\* A group that holds nothing once it is built is not attached.
Attach(dst, name, child) ==
    IF child = EmptyMap THEN dst ELSE Put(dst, name, Object(child))

AppendAttr(dst, groups, a) ==
    LET b == Rewritten(groups, a) IN
    CASE b = ZeroAttr -> dst
      [] b.value.kind = "group" /\ b.key = "" ->
           AppendAll(dst, groups, b.value.members)
      [] b.value.kind = "group" /\ b.key # "" ->
           Attach(dst, b.key, AppendAll(EmptyMap, ChildPath(groups, b.key), b.value.members))
      [] b.value.kind # "group" /\ b # ZeroAttr ->
           IF b.key = "" THEN dst ELSE Put(dst, b.key, Converted(b.value))

\* One WithAttrs call, with the hoisted values where there are any.
AppendGroupOrAttrs(dst, groups, goa) ==
    FoldLeftDomain(
        LAMBDA m, i :
            IF goa.pre # <<>> /\ goa.pre[i] # <<>>
            THEN Put(m, slices[goa.attrs][i].key, goa.pre[i][1])
            ELSE AppendAttr(m, groups, slices[goa.attrs][i]),
        dst, slices[goa.attrs])

RECURSIVE Walk(_, _, _, _)
Walk(goas, groups, dst, attrs) ==
    CASE goas = <<>> -> AppendAll(dst, groups, attrs)
      [] goas # <<>> /\ Head(goas).group # "" ->
           Attach(dst, Head(goas).group,
                  Walk(Tail(goas), ChildPath(groups, Head(goas).group), EmptyMap, attrs))
      [] goas # <<>> /\ Head(goas).group = "" ->
           Walk(Tail(goas), groups, AppendGroupOrAttrs(dst, groups, Head(goas)), attrs)

\* What is ambient yields to a key already taken.
Yielding(root, attrs) ==
    FoldLeft(LAMBDA m, a : IF a.key \in DOMAIN m THEN m ELSE AppendAttr(m, <<>>, a),
             root, attrs)

Source == Attr("source", Value("any", "site", <<>>))

Build(goas, ctxAttrs, r) ==
    LET walked == Walk(goas, <<>>, EmptyMap, r.attrs)
        sourced == IF cfg.addSource /\ r.pc THEN Yielding(walked, <<Source>>) ELSE walked
        ambient == Yielding(sourced, ctxAttrs)
        static == [k \in DOMAIN ambient \cup DOMAIN extra.static |->
                     IF k \in DOMAIN ambient THEN ambient[k] ELSE extra.static[k]]
    IN Yielding(static, extra.dynamic)

\* DefaultConverter: the attributes nested or flattened, then the reserved keys.
Reserved(key) == Scalar(Value("static", key, <<>>))
DefaultConverter(r, attrs) ==
    LET base == IF cfg.contextKey = "" THEN attrs
                ELSE Attach(EmptyMap, cfg.contextKey, attrs)
        dated == IF r.time THEN Put(base, "dt", Reserved("dt")) ELSE base
    IN Put(Put(dated, "level", Reserved("level")), "message", Reserved("message"))

-----------------------------------------------------------------------------
(* The handler's operations.                                               *)

\* prepareExtraFields: the fields that can be converted ahead of the records,
\* and the attributes for the rest.
PrepareExtraFields(c) ==
    LET hoisted == {i \in DOMAIN c.extraFields :
                      c.replace = "none" /\ Hoist(c.extraFields[i]) # <<>>}
    IN [static |-> FoldLeftDomain(
                       LAMBDA m, i : IF i \in hoisted
                                     THEN Put(m, c.extraFields[i].key, Hoist(c.extraFields[i])[1])
                                     ELSE m,
                       EmptyMap, c.extraFields),
        dynamic |-> SelectSeq(c.extraFields,
                              LAMBDA a : c.replace # "none" \/ Hoist(a) = <<>>)]

Init ==
    /\ DerivationInit
    /\ era \in DOMAIN Answers
    /\ extra = PrepareExtraFields(cfg)
    /\ out = None

\* attrsFromContext over what the extractors return.
AttrsFromContext(ctx) == FlattenSeq(ctx)

\* The record r is filtered out, or handed to the client.
Handle(h, r, ctx) ==
    /\ out' = IF r \in cfg.filtered THEN None
              ELSE [handler |-> h, record |-> r, ctx |-> ctx,
                    payload |-> DefaultConverter(r, Build(Goas(h), AttrsFromContext(ctx), r))]
    /\ UNCHANGED <<derivationVars, extra, era>>

-----------------------------------------------------------------------------
(* The application around the handlers.                                    *)

\* What the LogValuers answer changes.
Turn(e) ==
    /\ era' = e /\ out' = None
    /\ UNCHANGED <<derivationVars, extra>>

Next ==
    \/ Derive /\ out' = None /\ UNCHANGED <<extra, era>>
    \/ \E h \in DOMAIN handlers, r \in LogRecords, ctx \in Contexts : Handle(h, r, ctx)
    \/ \E e \in DOMAIN Answers : Turn(e)

Spec == Init /\ [][Next]_vars

-----------------------------------------------------------------------------
(* The reference: the document slog's own JSON handler would write for the *)
(* same calls, its members in order, read by a parser that keeps the last  *)
(* member of a key. What is ambient stands before everything it yields to. *)

Member(key, v, doc) == [key |-> key, v |-> v, doc |-> doc]

\* The members an attribute contributes: none, one, or those of a group
\* without a key.
RECURSIVE Members(_, _)
MembersOf(attrs, groups) ==
    FlattenSeq([i \in DOMAIN attrs |-> Members(attrs[i], groups)])
Members(a, groups) ==
    LET b     == Rewritten(groups, a)
        inner == MembersOf(b.value.members, IF b.key = "" THEN groups ELSE Append(groups, b.key))
    IN IF b.key = "" THEN inner
       ELSE IF b.value.kind # "group" THEN <<Member(b.key, Converted(b.value), <<>>)>>
       ELSE IF inner # <<>> THEN <<Member(b.key, Scalar(b.value), inner)>>
       ELSE <<>>

RECURSIVE CallMembers(_, _, _)
CallMembers(calls, groups, attrs) ==
    IF calls = <<>> THEN MembersOf(attrs, groups)
    ELSE IF Head(calls).group = ""
    THEN MembersOf(Head(calls).attrs, groups) \o CallMembers(Tail(calls), groups, attrs)
    ELSE LET g     == Head(calls).group
             inner == CallMembers(Tail(calls), Append(groups, g), attrs)
         IN IF inner = <<>> THEN <<>> ELSE <<Member(g, Source.value, inner)>>

\* What the record's own attributes and its handler's calls say of it.
Own(o) == CallMembers(handlers[o.handler].calls, <<>>, o.record.attrs)

\* The ambient attributes, in increasing order of generality: each yields to
\* everything before it, and so stands in front of it.
AmbientAttrs(o) ==
    (IF cfg.addSource /\ o.record.pc THEN <<Source>> ELSE <<>>)
      \o FlattenSeq(o.ctx) \o cfg.extraFields
DocumentUpTo(o, n) ==
    FoldLeft(LAMBDA doc, a : Members(a, <<>>) \o doc, Own(o), SubSeq(AmbientAttrs(o), 1, n))
Document(o) == DocumentUpTo(o, Len(AmbientAttrs(o)))

RECURSIVE Parse(_)
Parse(doc) ==
    [k \in {doc[i].key : i \in DOMAIN doc} |->
       LET m == doc[CHOOSE i \in DOMAIN doc :
                      /\ doc[i].key = k
                      /\ \A j \in DOMAIN doc : doc[j].key = k => j <= i]
       IN IF m.doc = <<>> THEN m.v ELSE Object(Parse(m.doc))]

ReservedMembers(r) ==
    LET keys == (IF r.time THEN <<"dt">> ELSE <<>>) \o <<"level", "message">>
    IN [i \in DOMAIN keys |-> Member(keys[i], Reserved(keys[i]), <<>>)]

PayloadDocument(o) ==
    (IF cfg.contextKey = "" THEN Document(o)
     ELSE IF Document(o) = <<>> THEN <<>>
     ELSE <<Member(cfg.contextKey, Source.value, Document(o))>>)
      \o ReservedMembers(o.record)

-----------------------------------------------------------------------------
(* Properties.                                                             *)

\* An ambient attribute that is a group without a key has a member that something
\* more specific names too: build compares the empty key and puts it all the same.
Keys(doc) == {doc[i].key : i \in DOMAIN doc}
Intrudes(o) ==
    \E i \in DOMAIN AmbientAttrs(o) :
        /\ AmbientAttrs(o)[i].key = ""
        /\ Keys(Members(AmbientAttrs(o)[i], <<>>)) \cap Keys(DocumentUpTo(o, i - 1)) # {}

\* The payload of a record is the document of its handler's calls read last-wins:
\* hoisted conversions, empty groups, LogValuers, source, context attributes and
\* extra fields included, each with the precedence its option documents and the
\* reserved keys over all of them (attr.go:128-222; handler.go:104-149;
\* converter.go:62-108). The exception is what Intrudes tells: there the ambient
\* group wins, against those documents (see SpecificWins).
SameAsDocument ==
    out # None /\ ~Intrudes(out) => out.payload = Parse(PayloadDocument(out))

\* What WithAttrFromContext says: an attribute of the record itself or of a logger's
\* With(...) chain wins over an ambient one of the same key (handler.go:125-128).
SpecificWins ==
    out # None /\ cfg.contextKey = "context" =>
        LET own == Parse(Own(out)) IN
        \A k \in DOMAIN own : out.payload["context"].sub[k] = own[k]

RECURSIVE MarkedFrom(_, _)
MarkedFrom(m, path) ==
    \A k \in DOMAIN m :
        IF m[k].sub = EmptyMap THEN m[k].at = path
        ELSE MarkedFrom(m[k].sub, Append(path, k))

\* The groups ReplaceAttr is called with are those the value ends up under,
\* groups it returns itself included (attr.go:257-345).
GroupsAsPlaced ==
    out # None /\ cfg.replace = "mark" /\ cfg.contextKey = "context"
        /\ "context" \in DOMAIN out.payload
      => MarkedFrom(out.payload["context"].sub, <<>>)
=============================================================================
