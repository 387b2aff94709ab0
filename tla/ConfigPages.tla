---------------------------- MODULE ConfigPages ----------------------------
(***************************************************************************)
(* The pages of the web interface that edit the configuration: the route   *)
(* and DNS policies, the inbounds and outbounds ("proxies"), the endpoints,*)
(* the experimental section and the raw configuration.  Each holds three   *)
(* copies of its section: the file of the daemon, the query cache, and the *)
(* editor's draft; the route page also holds the names of the rules, as    *)
(* the daemon listed them and as they were edited.  Saves, refetches and   *)
(* the daemon's answers interleave with the user.                          *)
(*                                                                         *)
(* A section is [globals, sets, rules]: the scalar options, the rule sets  *)
(* or DNS servers, and the rules; the inbounds, outbounds and endpoints    *)
(* are the list rules, the experimental section and the raw configuration  *)
(* are globals.  A save sends the whole section.                           *)
(***************************************************************************)
EXTENDS RuleNames, EditDialog, SequencesExt

CONSTANTS
    Page,         \* the pages to open
    Id,           \* what a list's entry can be edited to
    Name,         \* names a user gives to rules
    Global,       \* values of the scalar options
    InitSection,  \* the section in the file at the start, by page
    Blank,        \* an entry that does not exist yet
    NULL,         \* no object, no draft, no dialog
    MaxItems,     \* bound: entries of a list
    MaxRequests,  \* bound: requests in flight
    MaxBusy,      \* bound: of these, while somebody types in a dialog
    MaxLists,     \* bound: operations on lists
    MaxOthers,    \* bound: edits and saves of globals, installs, JSON
                  \* edits, foreign writes and returns to the page
    MaxFaults     \* bound: requests that fail

ASSUME PagesAssumption ==
    /\ Page \subseteq PolicyPages \cup {"proxies", "endpoints", "experimental",
                                   "raw"}
    /\ Blank \notin Id \cup {DefaultRule} /\ DefaultRule \notin Id
    /\ NoName \notin Name /\ DefaultName \notin Name
    /\ NULL \notin Id \cup Name \cup Global
    /\ {MaxItems, MaxRequests, MaxBusy, MaxLists,
      MaxOthers, MaxFaults} \subseteq Nat

\* A file has no holes and no more entries than a list may get.
FileList == BoundedSeq([id : Id \cup {DefaultRule},
                        name : Name \cup {NoName, DefaultName}], MaxItems)

ASSUME SectionAssumption ==
    InitSection \in [Page -> [globals : Global, sets : FileList, rules : FileList]]

VARIABLES
    page,       \* the open page
    file,       \* the section in the daemon's file
    stored,     \* the daemon's entries of rule names
    cache,      \* the section in the query cache
    names,      \* the list of names in the query cache
    draft,      \* the editor's object, NULL while its text is not one
    nameDraft,  \* the edited names, NULL when there are none
    dialog,     \* the open dialog, or NULL
    requests,   \* in the order of sending
    spent,      \* operations so far: [lists, others, faults]
    stray,      \* ghost: a case in which names may come off their rules; each
                \* is where stray' is set
    submitted   \* ghost: the globals that somebody saved

server == <<file, stored>>
client == <<cache, names, draft, nameDraft, dialog>>
vars == <<page, server, client, requests, spent, stray, submitted>>

Item == [id : Id \cup {Blank, DefaultRule},
         name : Name \cup {NoName, DefaultName}]
Items == BoundedSeq(Item, MaxItems + 1)
Section == [globals : Global, sets : Items, rules : Items]
NameList == BoundedSeq(Name \cup {NoName, DefaultName}, MaxItems + 1)
ASSUME NullAssumption == NULL \notin Section \cup NameList

Dialog == [kind : {"rules", "sets"}, index : 0 .. MaxItems + 1,
           item : Id \cup {Blank, DefaultRule}, ready : BOOLEAN, jsonOK : BOOLEAN,
           bad : SUBSET {"number", "structured"},
           invalid : SUBSET {"number", "structured"}]
Answered == {"ok", "rolled_back", "error"}
Outcome == Answered \cup {"lost"}
Request == [kind : {"rules", "global", "install"}, body : Section,
            names : NameList \cup {NULL}, here : BOOLEAN, latest : BOOLEAN,
            skips : BOOLEAN,
            stage : Answered \cup {"sent", "second", "naming", "named", "unnamed",
                                  "listing"}]

SpendList ==
    /\ spent.lists < MaxLists
    /\ spent' = [spent EXCEPT !.lists = @ + 1]
SpendOther ==
    /\ spent.others < MaxOthers
    /\ spent' = [spent EXCEPT !.others = @ + 1]

SpendFault(fails) ==
    /\ fails => spent.faults < MaxFaults
    /\ spent' = [spent EXCEPT !.faults = IF fails THEN @ + 1 ELSE @]

JSON(s) == [s EXCEPT !.sets = IdsOf(s.sets), !.rules = IdsOf(s.rules)]

\* alignedMetadata: what the route page shows beside its rules.
alignedMetadata(rules) ==
    LET metadata == IF nameDraft # NULL THEN nameDraft ELSE names
    IN  [i \in DOMAIN rules |-> IF i \in DOMAIN metadata THEN metadata[i]
                                ELSE NoName]

\* The rules on the screen.  Rules with the same JSON are told apart by the
\* names beside them and by nothing else: an answer that leaves the draft as
\* it is may have put the names of the cache's rules there.
Seen ==
    IF /\ IdsOf(draft.rules) = IdsOf(cache.rules)
       /\ alignedMetadata(draft.rules) = NamesOf(cache.rules)
      THEN cache.rules ELSE draft.rules
Editor == [draft EXCEPT !.rules = Seen]

Init ==
    /\ page \in Page
    /\ file = InitSection[page]
    /\ stored = Save(IdsOf(file.rules), NamesOf(file.rules))
    /\ cache = file
    /\ names = NamesOf(file.rules)
    /\ draft = file
    /\ nameDraft = NULL
    /\ dialog = NULL
    /\ requests = <<>>
    /\ spent = [lists |-> 0, others |-> 0, faults |-> 0]
    /\ stray = FALSE
    /\ submitted = {file.globals}

-----------------------------------------------------------------------------
(* The cache and the editor.  The editor is keyed by the JSON of its       *)
(* section: a section that comes back changed is a new editor, with no     *)
(* draft and no dialog.  The list of inbounds or outbounds has no draft,   *)
(* and its dialog stays.                                                   *)

\* A bug to be caught: the editor has no key, so that its dialog stays.
KeepDialog(c) ==
    IF JSON(c) = JSON(cache) THEN UNCHANGED <<draft, dialog>>
    ELSE draft' = c /\ UNCHANGED dialog

Remount(c) ==
    IF page = "proxies" THEN draft' = c /\ UNCHANGED dialog
    ELSE IF JSON(c) = JSON(cache) THEN UNCHANGED <<draft, dialog>>
    ELSE draft' = c /\ dialog' = NULL

\* The configuration is read again, at once or by the first attempt that
\* works after some that fail.  While the query has an error the page shows
\* an alert in place of its editor, so that a draft is lost, and the names
\* that were edited with it are not: those are kept by the page around it.
\* The dialog of an inbound or outbound opens again on the same entry.
Refresh ==
    /\ cache' = file
    /\ \/ Remount(file) /\ UNCHANGED stray
       \/ /\ draft' = file
          /\ dialog' = IF dialog = NULL \/ page # "proxies" THEN NULL
                       ELSE Opened(dialog.kind, dialog.index, dialog.item)
          /\ stray' = (stray \/ (nameDraft # NULL /\ Seen # file.rules))

\* The query refetches by itself: on focus, on reconnection, on a mount.
Refetch ==
    /\ Refresh
    /\ UNCHANGED <<page, server, names, nameDraft, requests, spent, submitted>>

\* A save of a list writes its names and reads them back for no one: the
\* cached names are those of the rules before it.
StaleNames == names # NamesOf(cache.rules)

\* The page is left and opened again before the cached data are stale: the
\* callbacks of what is in flight are lost, and so are the drafts.  What it
\* shows then are the cached names beside the cached rules.
Reopen ==
    /\ draft' = cache /\ nameDraft' = NULL /\ dialog' = NULL
    /\ requests' = [k \in DOMAIN requests |->
                      [requests[k] EXCEPT !.here = FALSE, !.latest = FALSE]]
    /\ stray' = (stray \/ requests # <<>> \/ StaleNames)
    /\ SpendOther
    /\ UNCHANGED <<page, server, cache, names, submitted>>

\* Another tab, a subscription update or an editor on the host.
ForeignWrite(s) ==
    /\ SpendOther
    /\ file' = s /\ stray' = TRUE
    /\ submitted' = submitted \cup {s.globals}
    /\ UNCHANGED <<page, stored, client, requests>>

-----------------------------------------------------------------------------
(* Requests.  The callbacks that a page passes to mutate() run for its     *)
(* latest call only; the hook's, which refetches, runs for every one.      *)

Pending(r) == r.latest /\ r.stage \in Answered \cup {"sent"}

Send(kind, body, ns) ==
    /\ Len(requests) < MaxRequests
    /\ requests' = Append(
         [k \in DOMAIN requests |->
            IF requests[k].kind = "install" THEN requests[k]
            ELSE [requests[k] EXCEPT !.latest = FALSE]],
         [kind |-> kind, body |-> body, names |-> ns, here |-> TRUE,
          latest |-> TRUE, skips |-> \E k \in DOMAIN requests : Pending(requests[k]),
          stage |-> "sent"])

\* A save of the rules failed, or something is in flight: an operation that
\* brings no names of its own then parts the rules from theirs.
Crossed == Seen # cache.rules \/ requests # <<>>

\* An operation that brings them does so when another answer is about to
\* replace them, or its list is older than the one sent last.
Misled == \E k \in DOMAIN requests :
    LET r == requests[k]
    IN  \/ r.kind = "install"
        \/ r.kind = "global" /\ r.stage \in {"naming", "named", "unnamed"}
        \/ r.latest /\ r.kind = "rules" /\ r.body.rules # Seen

Idle == draft # NULL /\ dialog = NULL

\* A bug to be caught: a list is saved with the globals on the screen.
UnsavedBody(object) == object

\* persistRules: a list is saved with the globals of the cache.
ListBody(object) == [object EXCEPT !.globals = cache.globals]

\* updateBoth, persistRules: a policy's list is replaced in the draft and saved
\* at once; a list of names follows the save.
PolicyList(kind, object, ns) ==
    /\ page \in PolicyPages
    /\ draft' = object
    /\ nameDraft' = IF page = "route" /\ kind = "rules" THEN ns ELSE nameDraft
    /\ Send("rules", ListBody(object), ns)
    /\ stray' = (\/ stray \/ object.rules = <<>>
                 \/ IF ns = <<>> THEN Crossed ELSE Misled)

\* persist: the list of inbounds or outbounds is the cached one, with a change.
ProxyList(object) ==
    /\ page = "proxies"
    /\ Send("rules", object, <<>>)
    /\ UNCHANGED <<draft, nameDraft, stray>>

\* The endpoints stay in the draft until its Save button.
EndpointList(object) ==
    /\ page = "endpoints"
    /\ draft' = object
    /\ UNCHANGED <<nameDraft, requests, stray>>

ListSave(kind, next, ns) ==
    LET object == [Editor EXCEPT ![kind] = next]
    IN  /\ Len(next) <= MaxItems
        /\ \/ PolicyList(kind, object, ns)
           \/ ProxyList(object)
           \/ EndpointList(object)
        /\ UNCHANGED <<page, server, cache, names, submitted>>

\* The lists that have an Add button.
Lists == CASE page \in PolicyPages -> {"rules", "sets"}
           [] page \in {"experimental", "raw"} -> {}
           [] OTHER -> {"rules"}

Copied(s, i) == InsertAt(s, i + 1, s[i])
moveItem(s, i, j) == [s EXCEPT ![i] = s[j], ![j] = s[i]]

\* The names that go with an operation on a list: none but for route rules.
With(kind, ns) == IF page = "route" /\ kind = "rules" THEN ns ELSE <<>>

Copy(kind, i) ==
    /\ Idle /\ SpendList
    /\ ListSave(kind, Copied(Editor[kind], i),
                With(kind, Copied(alignedMetadata(draft.rules), i)))
    /\ UNCHANGED dialog

Move(i, j) ==
    /\ Idle /\ SpendList
    /\ ListSave("rules", moveItem(Seen, i, j),
                With("rules", moveItem(alignedMetadata(draft.rules), i, j)))
    /\ UNCHANGED dialog

\* A bug to be caught: the name of the deleted rule stays.
DeleteRuleOnly(kind, i) ==
    /\ Idle /\ SpendList
    /\ ListSave(kind, RemoveAt(Editor[kind], i),
                With(kind, alignedMetadata(draft.rules)))
    /\ UNCHANGED dialog

Delete(kind, i) ==
    /\ Idle /\ SpendList
    /\ ListSave(kind, RemoveAt(Editor[kind], i),
                With(kind, RemoveAt(alignedMetadata(draft.rules), i)))
    /\ UNCHANGED dialog

-----------------------------------------------------------------------------
(* The dialog.                                                             *)

Edit(kind, i) ==
    /\ Idle /\ SpendList
    /\ dialog' = Opened(kind, i, IF i = 0 THEN Blank ELSE draft[kind][i].id)
    /\ UNCHANGED <<page, server, cache, names, draft, nameDraft, requests,
                   stray, submitted>>

Becomes(d) ==
    /\ dialog' = d
    /\ UNCHANGED <<page, server, cache, names, draft, nameDraft, requests,
                   spent, stray, submitted>>

Shown == Fields(page, dialog.kind)

Input(ready) ==
    /\ dialog # NULL /\ FormShown(page, dialog) /\ Len(requests) <= MaxBusy
    /\ \/ \E f \in Shown : \/ Becomes(ValidInput(dialog, f, ready))
                           \/ Becomes(InvalidInput(dialog, f))
       \/ \E hidden, dropped \in SUBSET Shown :
            Becomes(ChoiceMade(dialog, hidden, dropped, ready))

InputJSON(ready) ==
    /\ dialog # NULL /\ Len(requests) <= MaxBusy
    /\ \/ Becomes(JSONInput(dialog, ready))
       \/ Becomes(JSONBroken(page, dialog))

Cancel == dialog # NULL /\ Becomes(NULL)

\* The list of inbounds or outbounds can have shrunk behind its dialog: the
\* assignment past its end then leaves holes, entries that are null.  The
\* other lists are mapped, by an index that is in them (DialogItem).
Hole == [id |-> Blank, name |-> NoName]
replaceOrAppend(s, i, x) ==
    IF i = 0 THEN Append(s, x)
    ELSE [k \in 1 .. Max({i, Len(s)}) |->
            IF k = i THEN x ELSE IF k <= Len(s) THEN s[k] ELSE Hole]

\* Only the dialog of a route rule has a name to edit.
DialogNames == IF dialog # NULL /\ page = "route" /\ dialog.kind = "rules"
                 THEN Name \cup {NoName} ELSE {NoName}

\* saveSelection, saveItem: whatever entry the form or the JSON ended with.
SaveDialog(id, n) ==
    LET list == Editor[dialog.kind]
        shown == alignedMetadata(draft.rules)
    IN  /\ dialog # NULL /\ canSave(page, dialog)
        /\ ListSave(dialog.kind,
             replaceOrAppend(list, dialog.index,
                             [id |-> id, name |-> n]),
             IF page # "route" THEN <<>>
             ELSE IF dialog.kind = "rules"
               THEN replaceOrAppend(shown, dialog.index, n)
             ELSE shown)
        /\ dialog' = NULL /\ UNCHANGED spent

-----------------------------------------------------------------------------
(* The globals, the JSON tab and their Save button.                        *)

HasGlobals == page \in PolicyPages \cup {"experimental"}

EditGlobals(g) ==
    /\ Idle /\ HasGlobals /\ SpendOther
    /\ draft' = [draft EXCEPT !.globals = g]
    /\ UNCHANGED <<page, server, cache, names, nameDraft, dialog, requests,
                   stray, submitted>>

\* The JSON tab, and all of the raw page: any object, or a text that is none.
EditJSON(s) ==
    /\ dialog = NULL /\ page # "proxies" /\ SpendOther
    /\ draft' = s
    /\ stray' = (stray \/ draft = NULL \/ s = NULL \/ s.rules # draft.rules)
    /\ UNCHANGED <<page, server, cache, names, nameDraft, dialog, requests,
                   submitted>>

\* The raw page gives up what was typed.
Reset ==
    /\ page = "raw" /\ draft' = cache
    /\ UNCHANGED <<page, server, cache, names, nameDraft, dialog, requests,
                   spent, stray, submitted>>

\* saveGlobal: the globals on the screen with the lists of the cache.  The
\* Save button of the other pages sends it all; the raw page, whose body is
\* the whole configuration, disables its own while a save is pending.
GlobalBody ==
    IF page \in PolicyPages
      THEN [cache EXCEPT !.globals = draft.globals] ELSE draft

SaveGlobal ==
    /\ Idle /\ page # "proxies" /\ SpendOther
    /\ page = "raw" => \A k \in DOMAIN requests : ~Pending(requests[k])
    /\ Send("global", GlobalBody, IF page = "route" THEN nameDraft ELSE NULL)
    /\ stray' = (\/ stray \/ (nameDraft # NULL /\ Crossed)
                 \/ \E k \in DOMAIN requests : requests[k].kind = "install")
    /\ submitted' = submitted \cup {draft.globals}
    /\ UNCHANGED <<page, server, client>>

\* install: a request that no mutation counts.
Install ==
    /\ Idle /\ page \in PolicyPages \cup {"proxies"} /\ SpendOther
    /\ Len(requests) < MaxRequests
    /\ requests' = Append(requests,
         [kind |-> "install", body |-> cache, names |-> NULL, here |-> TRUE,
          latest |-> TRUE, skips |-> FALSE, stage |-> "sent"])
    /\ stray' = (stray \/ Crossed)
    /\ UNCHANGED <<page, server, client, submitted>>

-----------------------------------------------------------------------------
(* The daemon.  A save applies or is rolled back (ControlPlane has the     *)
(* details), fails, or its answer is lost.  The kernel has no entry for    *)
(* null, so a list with holes is not applied.                              *)

At(k, stage) == [requests EXCEPT ![k].stage = stage]
Drop(k) == RemoveAt(requests, k)

\* The file after a request: install adds to what is there, the rule sets
\* first and the rules with a second request on the route page.
Applied(r) ==
    LET sets == Installed(file.sets, NoName)
        named == IF page = "route" THEN DefaultName ELSE NoName
    IN  IF r.kind # "install" THEN r.body
        ELSE [file EXCEPT
               !.sets = IF page = "proxies" \/ r.stage = "second" THEN @
                        ELSE sets,
               !.rules = IF page = "route" /\ r.stage = "sent" THEN @
                         ELSE Installed(@, named)]

Serve(k, outcome) ==
    LET r == requests[k]
        first == r.kind = "install" /\ page = "route" /\ r.stage = "sent"
    IN  /\ r.stage \in {"sent", "second"} /\ SpendFault(outcome # "ok")
        /\ Hole \in ToSet(r.body.rules) => outcome \notin {"ok", "lost"}
        /\ file' = IF outcome \in {"ok", "lost"} THEN Applied(r) ELSE file
        /\ stored' = IF /\ r.kind = "install" /\ page = "route" /\ ~first
                        /\ outcome \in {"ok", "lost"}
                       THEN ApplyDefaultNames(stored, IdsOf(Applied(r).rules))
                       ELSE stored
        /\ requests' = At(k, CASE outcome = "ok" /\ first -> "second"
                                [] outcome = "lost" -> "error"
                                [] OTHER -> outcome)
        /\ stray' = (\/ stray \/ outcome = "lost"
                     \/ (outcome # "ok" /\ (r.skips \/ r.stage = "second"))
                     \/ \E j \in 1 .. k - 1 : requests[j].stage \in {"sent", "second"})
        /\ UNCHANGED <<page, client, submitted>>

\* The hook refetches after an answer, then the page's callback runs: persist
\* and persistRules send the names that belong to the save.  (saveMetadata
\* sends an empty list too, when the last rule has been deleted, which is a
\* case in stray.)
Answer(k) ==
    LET r == requests[k]
        follow == /\ r.latest /\ r.stage = "ok" /\ page = "route"
                  /\ r.names \notin {NULL, <<>>}
    IN  /\ r.kind # "install" /\ r.stage \in Answered
        /\ IF r.stage \in {"ok", "rolled_back"} THEN Refresh
           ELSE UNCHANGED <<cache, draft, dialog, stray>>
        /\ requests' = IF follow THEN At(k, "naming") ELSE Drop(k)
        /\ UNCHANGED <<page, server, names, nameDraft, spent, submitted>>

\* UpdateRouteRuleMetadata, or a failure of it.
ServeNames(k, works) ==
    LET r == requests[k]
        ids == IdsOf(file.rules)
        saved == works /\ Accepts(ids, r.names)
    IN  /\ r.stage = "naming" /\ SpendFault(~works)
        /\ stored' = IF saved THEN Save(ids, r.names) ELSE stored
        /\ requests' = At(k, IF saved THEN "named" ELSE "unnamed")
        /\ stray' = (\/ stray \/ ~works
                     \/ \E j \in 1 .. k - 1 : requests[j].stage = "naming")
        /\ UNCHANGED <<page, file, client, submitted>>

\* Its answer.  saveMetadata puts the saved names into the cache and drops
\* the draft; persistRules leaves both.
AnswerNames(k) ==
    LET r == requests[k]
    IN  /\ r.stage \in {"named", "unnamed"}
        /\ requests' = Drop(k)
        /\ IF r.kind = "global" /\ r.stage = "named"
             THEN names' = r.names /\ nameDraft' = IF r.here THEN NULL ELSE nameDraft
             ELSE UNCHANGED <<names, nameDraft>>
        /\ UNCHANGED <<page, server, cache, draft, dialog, spent, stray, submitted>>

\* installDefaults: only after a success is the configuration read again;
\* the outbounds page reads it after a rollback too.
AnswerInstall(k) ==
    LET r == requests[k]
        reread == \/ r.stage = "ok"
                  \/ (r.stage = "rolled_back" /\ page = "proxies")
    IN  /\ r.kind = "install" /\ r.stage \in Answered
        /\ IF reread THEN Refresh ELSE UNCHANGED <<cache, draft, dialog, stray>>
        /\ requests' = IF reread /\ page = "route" THEN At(k, "listing") ELSE Drop(k)
        /\ UNCHANGED <<page, server, names, nameDraft, spent, submitted>>

\* GetRouteRuleMetadata.
Listed == List(stored, IdsOf(file.rules))

\* refreshMetadata: the names are read again and the draft is dropped, also
\* when the reading fails.
refreshMetadata(k, works) ==
    LET r == requests[k]
    IN  /\ r.stage = "listing" /\ SpendFault(~works)
        /\ names' = IF works THEN Listed ELSE names
        /\ nameDraft' = IF r.here THEN NULL ELSE nameDraft
        /\ requests' = Drop(k)
        /\ stray' = (stray \/ (~works /\ names # Listed))
        /\ UNCHANGED <<page, server, cache, draft, dialog, submitted>>

\* The query of the names refetches by itself.
RefetchNames ==
    /\ page = "route" /\ names' = Listed
    /\ UNCHANGED <<page, server, cache, draft, nameDraft, dialog, requests, spent,
                   stray, submitted>>

-----------------------------------------------------------------------------

WithoutFirst(s) == [s EXCEPT !.rules = IF @ = <<>> THEN @ ELSE Tail(@)]

\* Edits of the section that do not go through its form.
Rewrites(s) == {[s EXCEPT !.globals = g] : g \in Global \ {s.globals}}
                 \cup {WithoutFirst(s), [s EXCEPT !.rules = Reverse(@)]}

\* RouteRuleCard: the first rule does not move up nor the last one down.
RuleButtons(i) ==
    /\ page \in PolicyPages
    /\ \/ Edit("rules", i) \/ Copy("rules", i) \/ Delete("rules", i)
       \/ i > 1 /\ Move(i, i - 1)
       \/ i < Len(draft.rules) /\ Move(i, i + 1)

\* RouteRuleSetCard.
SetButtons(i) ==
    /\ page \in PolicyPages
    /\ Edit("sets", i) \/ Copy("sets", i) \/ Delete("sets", i)

\* EndpointCard, and the cards of the inbounds and outbounds.
ItemButtons(i) ==
    /\ page \in {"proxies", "endpoints"}
    /\ Edit("rules", i) \/ Delete("rules", i)

Operation ==
    \/ \E kind \in Lists : Edit(kind, 0)
    \/ \E i \in DOMAIN draft.rules : RuleButtons(i) \/ ItemButtons(i)
    \/ \E i \in DOMAIN draft.sets : SetButtons(i)
    \/ \E g \in Global \ {draft.globals} : EditGlobals(g)
    \/ SaveGlobal
    \/ Install

User ==
    \/ draft # NULL /\ Operation
    \/ \E ready \in BOOLEAN : Input(ready) \/ InputJSON(ready)
    \/ Cancel
    \/ \E id \in Id, n \in DialogNames : SaveDialog(id, n)
    \/ \E s \in Rewrites(IF draft = NULL THEN cache ELSE draft) \cup {NULL} :
         EditJSON(s)
    \/ Reset
    \/ Reopen

Daemon ==
    \E k \in DOMAIN requests :
        \/ \E outcome \in Outcome : Serve(k, outcome)
        \/ Answer(k)
        \/ \E works \in BOOLEAN : ServeNames(k, works) \/ refreshMetadata(k, works)
        \/ AnswerNames(k)
        \/ AnswerInstall(k)

Next ==
    \/ User
    \/ Daemon
    \/ Refetch
    \/ RefetchNames
    \/ \E s \in Rewrites(file) : ForeignWrite(s)

Spec == Init /\ [][Next]_vars

-----------------------------------------------------------------------------

TypeOK ==
    /\ page \in Page
    /\ {file, cache} \subseteq Section
    /\ draft \in Section \cup {NULL}
    /\ stored \in Seq([fp : Id \cup {DefaultRule}, name : Name \cup {NoName, DefaultName}])
    /\ names \in NameList
    /\ nameDraft \in NameList \cup {NULL}
    /\ dialog \in Dialog \cup {NULL}
    /\ requests \in Seq(Request) /\ Len(requests) <= MaxRequests
    /\ spent \in [lists : 0 .. MaxLists, others : 0 .. MaxOthers,
                  faults : 0 .. MaxFaults]
    /\ stray \in BOOLEAN
    /\ submitted \subseteq Global

(* The names on the screen and the listed names belong to the rules beside *)
(* which they stand whenever nothing is in flight: the position fallback   *)
(* and the two lists that are saved one after the other never give a rule  *)
(* the name of another.  The code does part names from rules where stray   *)
(* is set, and nothing is claimed after that:                              *)
(*   the page is left and opened again with requests in flight, or on a    *)
(*   list of names that a saved list has outdated (Reopen);                *)
(*   a refetch fails while the draft's rules are not yet those of the file *)
(*   and their names have been edited (Refresh), or the names cannot be    *)
(*   read after an installation (refreshMetadata);                         *)
(*   a save's answer is lost, a save fails behind another one, or requests *)
(*   are served out of their order (Serve, ServeNames);                    *)
(*   an operation without names of its own meets a save that failed or is  *)
(*   in flight, or one with names is about to be overtaken by an answer    *)
(*   (PolicyList, SaveGlobal, Install), or the last rule is deleted;       *)
(*   the rules are edited as JSON, or by somebody else (EditJSON,          *)
(*   ForeignWrite).                                                        *)
NamesFollow ==
    (page = "route" /\ ~stray /\ requests = <<>> /\ draft # NULL) =>
        /\ alignedMetadata(draft.rules) = NamesOf(Seen)
        /\ Listed = NamesOf(file.rules)

(* A list is saved at once and the globals only by their button: globals   *)
(* that are still being edited never get into the file with a list, not    *)
(* even through a cache that an answer has refreshed (updateBoth).         *)
SeparateSaves == page # "endpoints" => file.globals \in submitted

(* A policy's dialog writes back the entry it was opened on: whatever      *)
(* replaced the list behind it also closed the dialog (the editor's key).  *)
DialogItem ==
    (page # "proxies" /\ dialog # NULL /\ dialog.index # 0) =>
        /\ dialog.index \in DOMAIN draft[dialog.kind]
        /\ draft[dialog.kind][dialog.index].id = dialog.item

(* A dialog with a field that shows an error cannot be saved, after any    *)
(* order of edits, choices and JSON texts: the set of invalid fields never *)
(* forgets one (useFieldValidity).  The endpoint dialog and the globals are *)
(* not gated at all.                                                       *)
DraftGates ==
    (dialog # NULL /\ page # "endpoints" /\ dialog.bad # {}) =>
        ~canSave(page, dialog)

=============================================================================
