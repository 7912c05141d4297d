---------------------------- MODULE RequestParts -----------------------------
(***************************************************************************)
(* What a caller makes the parts of a request from: the subject, out of    *)
(* the claims of a decoded token (src/src/basis_core/domain/subject.py),   *)
(* and resource identifiers (src/src/basis_core/domain/resource.py); and   *)
(* how a rule reads the type out of an identifier                          *)
(* (src/src/basis_core/policy/rules.py).                                   *)
(*                                                                         *)
(* A claim is "missing" (absent, or falsy), "blank" or "text".  The roles  *)
(* claim has a shape, and items: a name, a name with spaces around it, a   *)
(* blank, or no string at all.  An identifier is the sequence of its       *)
(* colon-separated segments; one without a colon has a single segment.     *)
(***************************************************************************)
EXTENDS Naturals, Sequences, Functions

CONSTANT NoSubject   \* subject_from_jwt raised ValueError

Claims == {"missing", "blank", "text"}
Shapes == {"list", "notAList", "notADict"}
Item(kind, role) == [kind |-> kind, role |-> role]

\* The token payloads that mention these roles.
PayloadsOver(roles) ==
  [sub : Claims, name : Claims, shape : Shapes,
   roles : Seq([kind : {"name", "padded", "blank", "other"}, role : roles])]

Usable(claim) == claim = "text"

\* realm_access.roles, if there is such a list, without what is not a string.
RawRoles(payload) ==
  IF payload.shape # "list" THEN {}
  ELSE {item \in Range(payload.roles) : item.kind # "other"}

\* A plausible bug: names are compared as they are spelt.
NormalizeRoles_Unstripped(items) == {i.role : i \in {j \in items : j.kind = "name"}}

\* Subject.normalize_roles: stripped, blanks dropped, each name once.
NormalizeRoles(items) ==
  {i.role : i \in {j \in items : j.kind \in {"name", "padded"}}}

SubjectFromJwt(payload) ==
  IF Usable(payload.sub) /\ Usable(payload.name)
  THEN [roles |-> NormalizeRoles(RawRoles(payload))]
  ELSE NoSubject

HasRole(subject, roles) == subject.roles \cap roles # {}

BuildResourceId(type, parts) == IF parts = <<>> THEN <<>> ELSE <<type>> \o parts

\* The type that ResourceTypePolicyRule sees in an identifier: what stands before
\* the first colon, all of it if there is none.  (parse_resource_id refuses an
\* identifier without a colon; no rule calls it.)
TypePrefix(id) == id[1]
=============================================================================
