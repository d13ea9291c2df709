------------------------- MODULE HandlerDisciplines -------------------------
(***************************************************************************)
(* What can be told of a handler from its sequence of calls alone, without *)
(* running it: the disciplines from which ResourceLifecycleProofs deduces  *)
(* the properties of ResourceLifecycle, for any object, any values and any *)
(* failures.                                                               *)
(***************************************************************************)
EXTENDS HandlerSteps, Naturals

\* The ID is set right after a creation.
Creates == {"post", "ensure"}
IdFirst(p) ==
  \A i \in DOMAIN p : p[i].call \in Creates =>
    i < Len(p) /\ p[i + 1].call = "set_id" /\ p[i + 1].when = {} /\ ~p[i + 1].careless
CreatesNothing(p) == \A i \in DOMAIN p : p[i].call \notin Creates
Removes(p) == \E i \in DOMAIN p : p[i].call = "remove" /\ p[i].when = {} /\ ~p[i].careless

Steps(p) == { p[i] : i \in DOMAIN p }
AllSteps(h) == Steps(h.create) \cup Steps(h.update) \cup Steps(h.delete)

\* An update makes its object anew only while it takes it to be there, so that
\* the ID stays.
AnewFirst(p) ==
  \A i, j \in DOMAIN p : j < i /\ p[j].call = "read_back" => p[i].call \notin Creates

\* An update that ends well has found its object.  If it fails, the framework
\* keeps the place where the object is.
Finds(s) == s.call = "put" /\ s.when = {} /\ ~s.quiet /\ ~s.careless
Anchored(h) ==
  /\ h.framework /\ h.identity = "assigned"
  /\ \A s \in AllSteps(h) : s.call # "reset"
  /\ \A s \in Steps(h.update) : s.call \notin Creates \cup {"read_back", "find"}
  /\ \E i \in DOMAIN h.update : Finds(h.update[i])

\* An object that is left in the end on purpose, and not replaced before: nothing
\* frozen can change, and nothing fails once the ID is set, which would taint it.
Lasting(h) ==
  /\ h.identity = "assigned" /\ h.facets \cap {"home", "frozen"} = {} /\ ~h.emptied
  /\ \A i \in DOMAIN h.create : h.create[i].call = "set_id" => i = Len(h.create)
  /\ \A i \in DOMAIN h.delete : h.delete[i].call # "remove"

\* Objects that their handlers make, and remove in the end.
Own(h) ==
  /\ h.identity \in {"assigned", "keyed"}
  /\ IdFirst(h.create) /\ AnewFirst(h.update) /\ CreatesNothing(h.delete)
  /\ \A s \in AllSteps(h) : s.call # "unset_id"
  /\ "home" \in h.facets => Anchored(h)
  /\ Removes(h.delete) \/ Lasting(h)

\* Handlers that keep their object known, whatever fails: they made it, or it is
\* there without them, or it is left on purpose and found again under its key.
Disciplined(h) ==
  \/ Own(h)
  \/ /\ "home" \notin h.facets
     /\ \/ h.identity \in {"singleton", "imported"}
        \/ h.identity = "keyed" /\ \A i \in DOMAIN h.delete : h.delete[i].call # "remove"

\* Handlers whose updates take an object out of force only if it shall be: the
\* status is read, and a deactivation asks for it; or there is no status and
\* nothing that changes it; or the status is all there is, and no update is
\* planned that leaves it.  And a singleton is never removed.
Steadfast(h) ==
  /\ h.identity = "singleton" => \A s \in AllSteps(h) : s.call # "remove"
  /\ \/ /\ "status" \in h.facets \ h.read.unread
        /\ \A s \in Steps(h.update) : /\ s.call = "deactivate" => "inactive" \in s.when
                                      /\ s.call \in Creates => "inactive" \notin s.with
     \/ /\ "status" \notin h.facets
        /\ \A s \in AllSteps(h) : s.call # "deactivate" /\ "inactive" \notin s.with
     \/ h.facets = {"status"}

\* The steps that may put an object in force, and those that send the
\* attributes, if they changed.
MayActivate(s) ==
  \/ s.call \in {"activate", "reset"} \cup Creates
  \/ s.call = "put" /\ s.with \cap {"status", "status?"} # {}
Sends(h, s) ==
  /\ s.call \in {"put", "post"} /\ "body" \in s.with /\ ~s.careless
  /\ s.when # {} => s.when = {"attributes_changed"} /\ "body" \notin h.read.unread

\* Handlers whose updates send the attributes before they put the object in force.
AttributesFirst(h) ==
  \/ "body" \notin h.facets
  \/ \A s \in Steps(h.update) : ~MayActivate(s)
  \/ /\ \A s \in Steps(h.update) :
          s.call \in {"reset"} \cup Creates => s.call = "post" /\ "body" \in s.with
     /\ \A i \in DOMAIN h.update :
          MayActivate(h.update[i]) \/ h.update[i].call = "read_back" =>
            \E j \in 1..i : Sends(h, h.update[j])

-----------------------------------------------------------------------------
\* What a handler has to bring about, in aspects that single steps change: that
\* requests find the object where the configuration says; that it is active, or
\* inactive, if it shall be; that it has the parts it shall have, and only those.
Aspects(h) ==
  (h.facets \cap {"frozen", "home", "body"})
    \cup (IF "status" \in h.facets THEN {"active", "inactive"} ELSE {})
    \cup (IF "parts" \in h.facets THEN {"has", "only"} ELSE {})
FacetOf(a) == CASE a \in {"active", "inactive"} -> "status"
                [] a \in {"has", "only", "to_add", "to_drop"} -> "parts"
                [] OTHER -> a

\* And what it needs to know on the way: the parts to add and to drop, the status,
\* that there is an object, that it shall be active; or that the handler refuses.
AspectNames == {"frozen", "home", "body", "active", "inactive", "has", "only",
                "to_add", "to_drop", "answered", "made", "meant", "refused"}

\* A step leaves an aspect as it shall be, if it was.
Leaves(s, a) ==
  /\ s.call \in Creates => \/ a \in {"frozen", "home", "made", "answered", "meant", "refused"}
                           \/ FacetOf(a) \in s.with
                           \/ a = "active" /\ "inactive" \notin s.with
  /\ s.call = "deactivate" /\ a = "active" => "inactive" \in s.when
  /\ s.call = "activate" /\ a = "inactive" => "active" \in s.when
  /\ s.call \in {"diff_state", "diff_listing", "diff_anew"} => a \notin {"to_add", "to_drop"}

\* An update spares an aspect if none of its steps disturbs it.  Then what did not
\* change need not be brought about.
Spares(h, a) == \A s \in Steps(h.update) : Leaves(s, a)
Changes(h, o, a) ==
  IF o = "update" /\ ~Spares(h, a) THEN {}
  ELSE CASE a \in {"active", "inactive"} -> {"status_changed"}
         [] a \in {"has", "only"} -> {"parts_changed"}
         [] a = "body" -> {"attributes_changed"}
         [] OTHER -> {}

\* A step that brings it about where it changed, or learns it.
Brings(h, o, s, a) ==
  /\ ~s.careless
  /\ \/ a \in Aspects(h) /\ s.call \in {"put", "post"} /\ FacetOf(a) \in s.with
          /\ s.when \subseteq Changes(h, o, a)
     \/ a = "frozen" /\ s.call \in Creates /\ s.when = {}
     \/ a = "home" /\ s.call \in {"put", "post"} /\ s.when = {}
     \/ a = "active" /\ s.call \in Creates /\ s.when = {}
          /\ h.identity = "assigned" /\ "inactive" \notin s.with
     \/ a = "inactive" /\ s.call \in Creates /\ s.when = {}
          /\ h.identity = "assigned" /\ "inactive" \in s.with
          /\ s.with \cap {"status", "status?"} = {}
     \/ a = "to_add" /\ s.call \in {"diff_state", "diff_listing"}
          /\ "parts" \in h.facets /\ s.when \subseteq {"parts_changed"}
     \/ a = "to_drop" /\ (s.call = "diff_listing" \/ (s.call = "diff_state" /\ o = "update"))
          /\ "parts" \in h.facets /\ s.when \subseteq {"parts_changed"}
     \/ a = "answered" /\ s.call \in {"look", "put", "post"} /\ s.when = {}
     \/ a = "made" /\ s.call \in Creates /\ s.when = {}
     \/ a = "meant" /\ s.call = "refuse" /\ s.when = {"inactive"}
     \/ a = "refused" /\ s.call = "refuse" /\ s.when = {}

\* Learned in a step before the i-th, and left since.
HandlerOf(h, o) == IF o = "create" THEN h.create ELSE h.update
LeftSince(h, o, i, j, a) ==
  \A k \in DOMAIN HandlerOf(h, o) : j < k /\ k < i => Leaves(HandlerOf(h, o)[k], a)
Learned(h, o, i, a) ==
  \E j \in DOMAIN HandlerOf(h, o) :
    j < i /\ Brings(h, o, HandlerOf(h, o)[j], a) /\ LeftSince(h, o, i, j, a)

\* The j-th step brings it about by itself, or from what was learned before.
Follows(h, o, j, a) ==
  LET s == HandlerOf(h, o)[j] IN
  /\ ~s.careless /\ a \in Aspects(h)
  /\ \/ a = "has" /\ s.call \in {"add", "add_all"} /\ s.when \subseteq Changes(h, o, a)
          /\ Learned(h, o, j, "to_add")
     \/ a = "only" /\ s.call = "drop" /\ s.when \subseteq Changes(h, o, a)
          /\ Learned(h, o, j, "to_drop")
     \/ /\ a \in {"active", "inactive"}
        /\ s.call = IF a = "active" THEN "activate" ELSE "deactivate"
        /\ \/ s.when \subseteq {a} \cup Changes(h, o, a)
           \/ s.when \subseteq {a, "status_differs"} /\ Learned(h, o, j, "answered")
Reached(h, o, i, a) ==
  \E j \in DOMAIN HandlerOf(h, o) :
    /\ j < i /\ LeftSince(h, o, i, j, a)
    /\ Brings(h, o, HandlerOf(h, o)[j], a) \/ Follows(h, o, j, a)

\* All is brought about before the i-th step, or the handler ended there.
Complete(h, o, i) ==
  \/ Reached(h, o, i, "refused")
  \/ /\ \A a \in Aspects(h) : \/ Reached(h, o, i, a)
                              \/ a = "frozen" /\ o = "update" /\ h.replaced
                              \/ a = "inactive" /\ Reached(h, o, i, "meant")
     /\ o = "create" => h.identity = "singleton" \/ Reached(h, o, i, "made")

\* Handlers that bring about what is configured: each aspect in some step, and
\* undone by none; an update does not even disturb what does not change, but for
\* the status.  The object is read back only then, and all that is configured is
\* read.  Where the parent may change, an object that is not found is an error.
Effective(h) ==
  /\ h.identity \in {"assigned", "keyed", "singleton", "imported"}
  /\ (h.facets \cup {"no_parts"}) \cap h.read.unread = {}
  /\ h.identity = "singleton" => \A s \in AllSteps(h) : s.call # "remove"
  /\ \A o \in {"create", "update"} :
       /\ \A s \in Steps(HandlerOf(h, o)) :
            /\ s.call \notin {"remove", "reset", "unset_id"}
            /\ s.call = "find" => o = "update" /\ "home" \notin h.facets
            /\ s.quiet => "home" \notin h.facets
       /\ Complete(h, o, Len(HandlerOf(h, o)) + 1)
       /\ \A i \in DOMAIN HandlerOf(h, o) :
            HandlerOf(h, o)[i].call = "read_back" => Complete(h, o, i)
  /\ \A a \in Aspects(h) \ {"active", "inactive"} : Spares(h, a)

-----------------------------------------------------------------------------
\* The steps that end in an error where the object is not found.
Seeks(s) ==
  \/ s.call \in {"look", "diff_listing", "read_back"}
  \/ /\ s.call \in {"put", "remove", "activate", "deactivate", "add", "add_all", "drop", "reset"}
     /\ ~s.quiet

ProgramOf(h, o) == CASE o = "create" -> h.create [] o = "update" -> h.update
                     [] o = "delete" -> h.delete

\* Before the i-th step the object was deactivated, and not activated since.  A
\* deletion need not deactivate what is inactive, if it activates nothing.
Halts(h, o, s) ==
  /\ s.call = "deactivate" /\ ~s.careless
  /\ \/ s.when = {}
     \/ o = "delete" /\ s.when = {"active"} /\ \A t \in Steps(h.delete) : ~MayActivate(t)
Halted(h, o, i) ==
  \E j \in DOMAIN ProgramOf(h, o) :
    /\ j < i /\ Halts(h, o, ProgramOf(h, o)[j])
    /\ \A k \in DOMAIN ProgramOf(h, o) : j < k /\ k < i => ~MayActivate(ProgramOf(h, o)[k])

\* The i-th step of a creation has its object.
Given(h, i) ==
  \/ h.identity = "singleton" /\ "home" \notin h.facets
  \/ /\ Reached(h, "create", i, "made")
     /\ "home" \in h.facets => Reached(h, "create", i, "home")

\* Handlers that no error ends by itself: a creation sets the ID and looks for
\* nothing that it did not make, a deletion for nothing that it removed, and no
\* call is made that the API refuses for an active object, unless it was
\* deactivated.  Where the parent may change, a failed update leaves the new one
\* in the state, and the next apply creates the object there.
Prompt(h) ==
  /\ \/ \E s \in Steps(h.create) : s.call = "set_id" /\ s.when = {}
     \/ Reached(h, "create", Len(h.create) + 1, "refused")
  /\ \A i \in DOMAIN h.create : Seeks(h.create[i]) => Given(h, i)
  /\ \A i \in DOMAIN h.delete : Seeks(h.delete[i]) =>
       \A j \in DOMAIN h.delete : j < i => h.delete[j].call # "remove"
  /\ \A o \in {"create", "update", "delete"} : \A i \in DOMAIN ProgramOf(h, o) :
       ProgramOf(h, o)[i].call \in h.guarded => Halted(h, o, i)
  /\ "home" \in h.facets =>
       /\ \A s \in Steps(h.update) \cup Steps(h.delete) : s.call \notin {"refuse", "reset"}
       /\ h.framework => \A s \in Steps(h.update) : ~Seeks(s)
=============================================================================
