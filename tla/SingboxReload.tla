--------------------------- MODULE SingboxReload ---------------------------
(***************************************************************************)
(* SingBox.Reload: a running sing-box is given new outbounds, rules and    *)
(* inbounds one manager call at a time, while traffic goes on; when a call *)
(* fails the previous ones are put back the same way.                      *)
(*                                                                         *)
(* Source: internal/kernel/singbox/singbox.go, reload.go, and, for what a  *)
(* call does to a manager, third_party/sing-box/adapter/outbound and       *)
(* inbound, route/router.go and common/dialer/detour.go.                   *)
(*                                                                         *)
(* A runtime is [outs, rules, ins]: the outbounds as a sequence of [tag,   *)
(* opts, deps], the tags its rules send traffic to, the rule appended for  *)
(* the final outbound included, and the options of its inbounds by tag.    *)
(* What a manager call may run into besides the calls before it is left    *)
(* open: any Create or UpdateRules may fail.                               *)
(***************************************************************************)
EXTENDS Integers, Sequences, SequencesExt, FiniteSets

CONSTANTS
    Runtimes,    \* the runtimes a node may be given
    MaxReloads,  \* bound: reloads
    MaxFailures  \* bound: manager calls that fail by themselves

VARIABLES
    outs,      \* outbound manager: options and dependencies by tag
    dependBy,  \* dependByTag, as pairs <<dependency, tag>>
    resolved,  \* outbounds that have looked their dependencies up
    stale,     \* of these, the ones left with an outbound replaced since
    rules,     \* the tags the router's rules name
    ins,       \* inbound manager: options by tag
    applied,   \* the runtime SingBox holds: nodeConfig, users and tls
    desired,   \* the runtime being applied
    pc,        \* where Reload is
    todo,      \* what is left of the present loop
    mutated,   \* inboundsMutated
    outcome,   \* of the last Reload: "ok" or "failed"
    reloads,   \* reloads so far (bound only)
    failures,  \* calls failed so far (bound only)
    blamed,    \* did a call of this reload fail by itself? (history)
    damaged    \* did a call fail while the previous runtime was put back? (history)

reloadVars == <<outs, dependBy, resolved, stale, rules, ins, applied, desired, pc,
                todo, mutated, outcome, reloads, failures, blamed, damaged>>

managers == <<outs, dependBy, resolved, stale>>
control == <<applied, desired, outcome, reloads, damaged>>

Tags(seq) == {seq[i].tag : i \in DOMAIN seq}
ByTag(seq, t) == seq[CHOOSE i \in DOMAIN seq : seq[i].tag = t]
Has(f, t) == t \in DOMAIN f
Without(f, t) == [u \in DOMAIN f \ {t} |-> f[u]]
With(f, t, v) == [u \in DOMAIN f \union {t} |-> IF u = t THEN v ELSE f[u]]

-----------------------------------------------------------------------------
(***************************************************************************)
(* orderedOutbounds: the depth-first visit.                                *)
(***************************************************************************)

Unvisited == [done |-> <<>>, open |-> {}, cyclic |-> FALSE]

RECURSIVE Visit(_, _, _)
Visit(seq, v, t) ==
    IF v.cyclic \/ t \in Tags(v.done) \/ t \notin Tags(seq) THEN v
    ELSE IF t \in v.open THEN [v EXCEPT !.cyclic = TRUE]
    ELSE LET o == ByTag(seq, t)
             w == FoldLeft(LAMBDA u, d : Visit(seq, u, d),
                           [v EXCEPT !.open = @ \union {t}], o.deps)
         IN  IF w.cyclic THEN w ELSE [w EXCEPT !.done = Append(@, o)]

Ordering(seq) == FoldLeft(LAMBDA v, o : Visit(seq, v, o.tag), Unvisited, seq)
Cyclic(seq) == Ordering(seq).cyclic

\* Mutant: the outbounds are taken as the configuration lists them.
AsListed(seq) == seq

\* Dependencies come first.
OrderedOutbounds(seq) == Ordering(seq).done

\* removeObsoleteOutbounds: what is no longer wanted, dependents first.
Obsolete(from, wanted) ==
    SelectSeq(Reverse(OrderedOutbounds(from)), LAMBDA o : o.tag \notin Tags(wanted))

-----------------------------------------------------------------------------
(***************************************************************************)
(* The managers.                                                           *)
(***************************************************************************)

\* Outbound Manager.Create replaces an outbound of the tag: its dependency
\* edges go, and whoever looked it up keeps the old one.
CreateOut(o) ==
    /\ outs' = With(outs, o.tag, [opts |-> o.opts, deps |-> o.deps])
    /\ dependBy' = {p \in dependBy : p[2] # o.tag} \union (Range(o.deps) \X {o.tag})
    /\ resolved' = resolved \ {o.tag}
    /\ stale' = (stale \union {t \in resolved : o.tag \in Range(outs[t].deps)}) \ {o.tag}

Dependents(t) == {p[2] : p \in {q \in dependBy : q[1] = t}}

\* Outbound Manager.Remove: the tag is gone even if it is depended on, which
\* is then reported.
RemoveOut(t) ==
    /\ outs' = Without(outs, t)
    /\ dependBy' = IF Dependents(t) = {} THEN {p \in dependBy : p[2] # t} ELSE dependBy
    /\ resolved' = resolved \ {t}
    /\ stale' = (stale \union {u \in resolved : t \in Range(outs[u].deps)}) \ {t}

\* DetourDialer.init and Selector.Start: an outbound looks its dependencies up
\* once, with its first connection or when it is started.
Resolve(t) ==
    /\ t \notin resolved
    /\ outs[t].deps # <<>> /\ Range(outs[t].deps) \subseteq DOMAIN outs
    /\ resolved' = resolved \union {t}
    /\ UNCHANGED <<outs, dependBy, stale, rules, ins, pc, todo, mutated, control,
                   failures, blamed>>

\* A call fails by itself.
Fails ==
    /\ failures < MaxFailures
    /\ failures' = failures + 1
    /\ blamed' = TRUE

Works == UNCHANGED <<failures, blamed>>

-----------------------------------------------------------------------------
(***************************************************************************)
(* Reload, forward.                                                        *)
(***************************************************************************)

Table(seq) == [t \in Tags(seq) |-> [opts |-> ByTag(seq, t).opts, deps |-> ByTag(seq, t).deps]]

\* A started instance.
Init ==
    \E r \in Runtimes :
        /\ ~Cyclic(r.outs)
        /\ applied = r /\ desired = r
        /\ outs = Table(r.outs)
        /\ dependBy = UNION {Range(o.deps) \X {o.tag} : o \in Range(r.outs)}
        /\ rules = r.rules /\ ins = r.ins
        /\ resolved = {} /\ stale = {}
        /\ pc = "idle" /\ todo = <<>> /\ mutated = FALSE /\ outcome = "ok"
        /\ reloads = 0 /\ failures = 0 /\ blamed = FALSE /\ damaged = FALSE

\* The deferred function: the previous outbounds first, all of them.
Restoring == pc' = "restore_outs" /\ todo' = OrderedOutbounds(applied.outs)

\* Both runtimes are built; a cycle is found by replaceOutbounds.
Reload(r) ==
    /\ pc = "idle" /\ reloads < MaxReloads
    /\ reloads' = reloads + 1
    /\ desired' = r
    /\ mutated' = FALSE /\ blamed' = FALSE
    /\ IF Cyclic(r.outs) THEN Restoring
       ELSE pc' = "outs" /\ todo' = OrderedOutbounds(r.outs)
    /\ UNCHANGED <<managers, rules, ins, applied, outcome, failures, damaged>>

\* replaceOutbounds, one outbound: left alone if it is there and as before.
\* A group does not start without its members; a detour is looked up later.
ReplaceOut ==
    /\ pc = "outs" /\ todo # <<>>
    /\ LET o == Head(todo)
           same == Has(outs, o.tag) /\ o \in Range(applied.outs)
       IN  \/ /\ IF same THEN UNCHANGED managers ELSE CreateOut(o)
              /\ pc' = pc /\ todo' = Tail(todo)
              /\ Works
           \/ ~same /\ Restoring /\ Fails /\ UNCHANGED managers
           \/ /\ ~same /\ ~(Range(o.deps) \subseteq DOMAIN outs)
              /\ Restoring /\ Works /\ UNCHANGED managers
    /\ UNCHANGED <<rules, ins, mutated, control>>

\* Router.UpdateRules swaps the rules only when all of them are built.
UpdateRules ==
    /\ pc = "outs" /\ todo = <<>>
    /\ \/ /\ rules' = desired.rules
          /\ pc' = "ins" /\ todo' = SetToSeq(DOMAIN desired.ins)
          /\ Works
       \/ Restoring /\ Fails /\ UNCHANGED rules
    /\ UNCHANGED <<managers, ins, mutated, control>>

\* Unwanted inbounds go, then each wanted one is updated in place if no
\* inbound changed, or, also when that fails, removed and created anew;
\* mutated records the latter.
ReplaceIns ==
    /\ pc = "ins" /\ todo # <<>>
    /\ LET t == Head(todo)
           kept == [u \in DOMAIN ins \intersect DOMAIN desired.ins |-> ins[u]]
           same == applied.ins = desired.ins /\ Has(ins, t)
       IN  \/ /\ ins' = With(kept, t, desired.ins[t])
              /\ mutated' \in {mutated \/ ~same, TRUE}
              /\ pc' = pc /\ todo' = Tail(todo)
              /\ Works
           \/ /\ ins' = Without(kept, t)
              /\ mutated' = TRUE
              /\ Restoring /\ Fails
    /\ UNCHANGED <<managers, rules, control>>

\* Every inbound is in place: what is obsolete can go.
Tidy ==
    /\ pc = "ins" /\ todo = <<>>
    /\ pc' = "tidy" /\ todo' = Obsolete(applied.outs, desired.outs)
    /\ UNCHANGED <<managers, rules, ins, mutated, control, failures, blamed>>

\* removeObsoleteOutbounds, one outbound.
RemoveObsolete ==
    /\ pc = "tidy" /\ todo # <<>>
    /\ LET t == Head(todo).tag
       IN  /\ IF Has(outs, t) THEN RemoveOut(t) ELSE UNCHANGED managers
           /\ IF Has(outs, t) /\ Dependents(t) # {} THEN Restoring
              ELSE pc' = pc /\ todo' = Tail(todo)
    /\ UNCHANGED <<rules, ins, mutated, control, failures, blamed>>

\* The new runtime becomes the one SingBox holds.
Commit ==
    /\ pc = "tidy" /\ todo = <<>>
    /\ pc' = "idle" /\ outcome' = "ok"
    /\ applied' = desired
    /\ UNCHANGED <<managers, rules, ins, desired, todo, mutated, reloads, failures,
                   blamed, damaged>>

-----------------------------------------------------------------------------
(***************************************************************************)
(* The deferred function: each part of the previous runtime is put back,   *)
(* whatever became of the part before.                                     *)
(***************************************************************************)

Damage == Fails /\ damaged' = TRUE
NoDamage == Works /\ UNCHANGED damaged

\* replaceOutbounds with nothing to compare with; an error ends the loop.
RestoreOut ==
    /\ pc = "restore_outs" /\ todo # <<>>
    /\ LET o == Head(todo)
       IN  \/ CreateOut(o) /\ todo' = Tail(todo) /\ NoDamage
           \/ UNCHANGED managers /\ todo' = <<>> /\ Damage
    /\ UNCHANGED <<rules, ins, pc, mutated, applied, desired, outcome, reloads>>

RestoreRules ==
    /\ pc = "restore_outs" /\ todo = <<>>
    /\ \/ rules' = applied.rules /\ NoDamage
       \/ UNCHANGED rules /\ Damage
    /\ pc' = "restore_ins"
    /\ todo' = IF mutated THEN SetToSeq(DOMAIN applied.ins) ELSE <<>>
    /\ UNCHANGED <<managers, ins, mutated, applied, desired, outcome, reloads>>

\* Mutant: only the previous inbounds are looked at.
PreviousOnly(t) == Without(ins, t)

\* The inbounds of the rejected runtime go before the first one is created.
WithoutRejected(t) ==
    IF Len(todo) = Cardinality(DOMAIN applied.ins)
    THEN [u \in (DOMAIN ins \ DOMAIN desired.ins) \ {t} |-> ins[u]]
    ELSE Without(ins, t)

RestoreIns ==
    /\ pc = "restore_ins" /\ todo # <<>>
    /\ LET t == Head(todo)
       IN  \/ ins' = With(WithoutRejected(t), t, applied.ins[t]) /\ NoDamage
           \/ ins' = WithoutRejected(t) /\ Damage
    /\ todo' = Tail(todo)
    /\ UNCHANGED <<managers, rules, pc, mutated, applied, desired, outcome, reloads>>

\* removeObsoleteOutbounds, of the rejected ones; of a cyclic runtime nothing
\* was created.
TidyRejected ==
    /\ pc = "restore_ins" /\ todo = <<>>
    /\ pc' = "restore_tidy"
    /\ todo' = IF Cyclic(desired.outs) THEN <<>>
               ELSE Obsolete(desired.outs, applied.outs)
    /\ UNCHANGED <<managers, rules, ins, mutated, control, failures, blamed>>

RemoveRejected ==
    /\ pc = "restore_tidy" /\ todo # <<>>
    /\ LET t == Head(todo).tag
       IN  /\ IF Has(outs, t) THEN RemoveOut(t) ELSE UNCHANGED managers
           /\ todo' = IF Has(outs, t) /\ Dependents(t) # {} THEN <<>> ELSE Tail(todo)
    /\ UNCHANGED <<rules, ins, pc, mutated, control, failures, blamed>>

\* Reload returns the error that started this.
Failed ==
    /\ pc = "restore_tidy" /\ todo = <<>>
    /\ pc' = "idle" /\ outcome' = "failed"
    /\ UNCHANGED <<managers, rules, ins, applied, desired, todo, mutated, reloads,
                   failures, blamed, damaged>>

Next ==
    \/ \E r \in Runtimes : Reload(r)
    \/ ReplaceOut \/ UpdateRules \/ ReplaceIns \/ Tidy \/ RemoveObsolete \/ Commit
    \/ RestoreOut \/ RestoreRules \/ RestoreIns \/ TidyRejected \/ RemoveRejected
    \/ Failed
    \/ \E t \in DOMAIN outs : Resolve(t)

Spec == Init /\ [][Next]_reloadVars

-----------------------------------------------------------------------------
(***************************************************************************)
(* Properties.                                                             *)
(***************************************************************************)

\* Every variable has its type.
TypeOK ==
    /\ applied \in Runtimes /\ desired \in Runtimes
    /\ resolved \subseteq DOMAIN outs /\ stale \subseteq resolved
    /\ outcome \in {"ok", "failed"}
    /\ {mutated, blamed, damaged} \subseteq BOOLEAN

\* "Outbounds must exist before rule construction": at no moment of a reload,
\* or of putting the previous runtime back, does a rule send traffic to an
\* outbound that is not there.
RulesResolve == ~damaged => rules \subseteq DOMAIN outs

\* "Dependencies are created first", "Dependents must be removed before their
\* upstreams": a runtime whose outbounds refer to each other without a cycle
\* is never refused because of the order of the calls.
RefusedForCause ==
    pc \in {"restore_outs", "restore_ins", "restore_tidy"} =>
        blamed \/ damaged \/ Cyclic(desired.outs)

\* "A partial manager update is not a successful application": a reload ends
\* with exactly one of the two runtimes in the managers, the new one if it
\* succeeds and the previous one if it fails, unless putting it back fails.
OneRuntime ==
    pc = "idle" /\ ~damaged =>
        /\ outs = Table(applied.outs)
        /\ rules = applied.rules
        /\ ins = applied.ins

\* A running chain does not keep an old upstream: after a reload, whoever has
\* looked an outbound up has the one that is in the manager.
ChainsCurrent == pc = "idle" /\ ~damaged => stale = {}
=============================================================================
