---------------------------- MODULE EditDialog ----------------------------
(***************************************************************************)
(* The dialog in which one entry of a list is edited: the rules and rule   *)
(* sets of the route page, the rules and servers of the DNS page, an       *)
(* inbound or outbound, an endpoint.  EntryForms models what its fields do *)
(* to the entry; this module models when the dialog may be saved, which    *)
(* the dialog, the JSON editor and the fields decide together through      *)
(* callbacks:                                                              *)
(*   ready    the entry as it stands has its required values;              *)
(*   jsonOK   the text of the JSON editor is an object;                    *)
(*   bad      fields that show an error, each from its own draft state;    *)
(*   invalid  the set the dialog keeps of the fields that reported one.    *)
(* A "number" field checks and converts its text (policy-transformed-      *)
(* field), a "structured" one holds JSON (useStructuredDraft, JSONField).  *)
(***************************************************************************)
PolicyPages == {"route", "dns"}

\* The kinds of fields that a dialog reports errors of.
Fields(page, kind) ==
    IF page \notin PolicyPages THEN {"structured"}
    ELSE IF page = "route" /\ kind = "sets" THEN {}
    ELSE {"number", "structured"}

\* The dialog on entry number index, 0 for a new one.
Opened(kind, index, item) ==
    [kind |-> kind, index |-> index, item |-> item, ready |-> index # 0,
     jsonOK |-> TRUE, bad |-> {}, invalid |-> {}]

\* The inbound and outbound dialogs hide their form while the text is not an
\* object; the others show the last object.
FormShown(page, d) == d.jsonOK \/ page # "proxies"

\* A bug to be caught: one good field clears the errors of all.
ForgetsOthers(d, f, ready) ==
    [d EXCEPT !.ready = ready, !.jsonOK = TRUE, !.bad = @ \ {f}, !.invalid = {}]

\* A field is given a text it accepts: the entry and its JSON follow.
ValidInput(d, f, ready) ==
    [d EXCEPT !.ready = ready, !.jsonOK = TRUE,
              !.bad = @ \ {f}, !.invalid = @ \ {f}]

\* A field is given a text it does not accept: the entry stays.
InvalidInput(d, f) == [d EXCEPT !.bad = @ \cup {f}, !.invalid = @ \cup {f}]

\* A type or an action is chosen: fields disappear, which withdraw their
\* error, and others lose their value and with it their draft.  Of these a
\* structured field reports that it is valid again; a number field does not.
ChoiceMade(d, hidden, dropped, ready) ==
    [d EXCEPT !.ready = ready, !.jsonOK = TRUE,
              !.bad = @ \ (hidden \cup dropped),
              !.invalid = @ \ (hidden \cup (dropped \cap {"structured"}))]

\* The text of the JSON editor is replaced by an object: the fields take
\* their drafts from it.  The policy and endpoint dialogs empty the set; in
\* those of an inbound or outbound each JSON field reports that it is valid
\* again, because the text has a new revision.
JSONInput(d, ready) ==
    [d EXCEPT !.ready = ready, !.jsonOK = TRUE, !.bad = {}, !.invalid = {}]

\* It is replaced by something else.  Only the policy dialogs keep the fields
\* in place behind the editor.
JSONBroken(page, d) ==
    IF page \in PolicyPages THEN [d EXCEPT !.jsonOK = FALSE]
    ELSE [d EXCEPT !.jsonOK = FALSE, !.bad = {}, !.invalid = {}]

\* The Save button.  The endpoint dialog takes the text or the form,
\* whichever is ready.
canSave(page, d) ==
    IF page = "endpoints"
      THEN d.ready /\ (d.jsonOK \/ d.invalid = {})
      ELSE d.ready /\ d.jsonOK /\ d.invalid = {}
=============================================================================
