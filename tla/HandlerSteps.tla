---------------------------- MODULE HandlerSteps ----------------------------
(***************************************************************************)
(* The vocabulary in which the handlers of a resource are written down: a  *)
(* handler is the sequence of the API calls it makes, each with the        *)
(* conditions under which it is made and with what becomes of a 404, and   *)
(* of the points where it sets the ID.  ResourceLifecycle interprets it.   *)
(*                                                                         *)
(* The attributes of a resource are of five sorts.                         *)
(*   frozen  those whose change replaces the resource (ForceNew)           *)
(*   home    those under which requests look for the object, the ID of its *)
(*           parent, where their change does not replace the resource      *)
(*   body    those that one request replaces                               *)
(*   parts   those that are added and removed by a request each            *)
(*   status  whether the object is in force                                *)
(***************************************************************************)
EXTENDS Sequences

Facets == {"frozen", "home", "body", "parts", "status"}

\* The conditions of a step, on the planned attributes and the state.
Guards == { "active", "inactive",          \* the status d.Get answers
            "no_parts", "some_parts",      \* the parts it answers
            "status_changed", "attributes_changed", "parts_changed",   \* d.HasChange
            "status_differs" }             \* from what the last answer showed

\* A step makes a call under all conditions of "when"; if "quiet", a 404 is
\* no error, and if "careless", no failure at all is.  A request carries the
\* facets "with".  Whether the API takes over a status that a request carries is
\* left open ("status?") where the handler goes on to set the status by calls;
\* an object is born active unless the request is marked "inactive".
Step(call, with) ==
  << [call |-> call, with |-> with, when |-> {}, quiet |-> FALSE, careless |-> FALSE] >>

Post(with)  == Step("post", with)
Put(with)   == Step("put", with)
Ensure(with) == Step("ensure", with)    \* a creation, unless the object is found
Remove      == Step("remove", {})
Activate    == Step("activate", {})
Deactivate  == Step("deactivate", {})
SetId       == Step("set_id", {})       \* d.SetId, or the state written in between
UnsetId     == Step("unset_id", {})     \* d.SetId("")
ReadBack    == Step("read_back", {})    \* the Read handler at the end of another
DiffState   == Step("diff_state", {})   \* parts to add and remove, from the state;
                                        \* all that the state has, in a deletion
DiffAnew    == Step("diff_anew", {})    \* the same, but all are added that shall be there
DiffListing == Step("diff_listing", {}) \* the same from what the API lists
AddParts    == Step("add", {})
AddAll      == Step("add_all", {})     \* one request for all that are to be added
DropParts   == Step("drop", {})
Reset       == Step("reset", {})       \* everything as it was before anybody changed it
Find        == Step("find", {})         \* a handler that is done if the object is gone
Check       == Step("check", {})        \* a call or a test that may fail, and changes nothing
Aside       == Check                   \* a call for something beside the attributes
Look        == Step("look", {})         \* the status is read, into the answer
Refuse      == Step("refuse", {})       \* an error before any call

When(guards, p) == [i \in DOMAIN p |-> [p[i] EXCEPT !.when = @ \cup guards]]
Quiet(p) == [i \in DOMAIN p |-> [p[i] EXCEPT !.quiet = TRUE]]
Careless(p) == [i \in DOMAIN p |-> [p[i] EXCEPT !.quiet = TRUE, !.careless = TRUE]]

\* The calls for the status that is wanted.
SetStatus == When({"active"}, Activate) \o When({"inactive"}, Deactivate)

\* What Read does when the object is gone, and the facets that it leaves as
\* they are in the state ("no_parts": the parts, when there are none).
Forgets == [missing |-> "forget", unread |-> {}]
FailsIfMissing == [missing |-> "fail", unread |-> {}]
Except(fs, read) == [read EXCEPT !.unread = fs]
Showing(fs, read) == Except({"body", "parts", "status"} \ fs, read)

\* A resource of the plugin SDK, and one of the framework: they differ in what
\* is saved when an update fails.  The ID of the object is assigned with each
\* creation, or is a key under which a creation finds what is there, or the
\* object is there before Terraform knows it, be it always or to be imported.
\* "guarded" are the calls that the API refuses for an active object; "emptied"
\* resources are replaced when they lose all parts, and those not "replaced"
\* have no ForceNew on attributes that only a creation sends.
Resource(facets, create, read, update, delete) ==
  [ facets |-> facets, create |-> create, read |-> read, update |-> update,
    delete |-> delete, framework |-> FALSE, identity |-> "assigned",
    guarded |-> {}, emptied |-> FALSE, replaced |-> TRUE ]

Framework(r) == [r EXCEPT !.framework = TRUE]
Keyed(r) == [r EXCEPT !.identity = "keyed"]
Singleton(r) == [r EXCEPT !.identity = "singleton"]
Imported(r) == [r EXCEPT !.identity = "imported"]
Guarded(calls, r) == [r EXCEPT !.guarded = calls]
ReplacedIfEmptied(r) == [r EXCEPT !.emptied = TRUE]
NeverReplaced(r) == [r EXCEPT !.replaced = FALSE]
=============================================================================
