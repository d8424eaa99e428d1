--------------------------- MODULE EditPermission ---------------------------
(***************************************************************************)
(* Who may edit topologies.  The check is made twice: canEditTopology in   *)
(* the page, with the allow list the page loaded, decides whether editing  *)
(* is offered; canEdit in the backend, with the user and the settings that *)
(* Grafana passes along with the request, whether an edit is accepted.     *)
(* Admins change the list meanwhile on the configuration page, and anybody *)
(* may call the backend without the page.                                  *)
(***************************************************************************)
EXTENDS Naturals

CONSTANTS
    Users,
    Nobody,         \* a request without a user
    Role,           \* a user's role in the organisation
    ServerAdmins,   \* users that administer the Grafana server
    SignedIn,       \* users that aren't anonymous
    Emails,         \* as they are written in the list or by users
    Email,          \* a user's
    Normal,         \* an e-mail in lower case, trimmed
    Unreadable,     \* the list of a page that couldn't read the settings
    MaxSaves        \* bound on the changes of the list

ASSUME PermissionAssumption ==
    /\ Nobody \notin Users
    /\ Role \in [Users -> {"Admin", "Editor", "Viewer"}]
    /\ ServerAdmins \subseteq Users /\ SignedIn \subseteq Users
    /\ Email \in [Users -> Emails]
    /\ Normal \in [Emails -> Emails]
    /\ MaxSaves \in Nat

VARIABLES
    editAllowList,  \* in the plugin's settings
    pageList,       \* the list that the page of each user loaded
    edit,           \* the last request of each user to edit, and what Grafana passes along
    saves,          \* how often the list was changed
    listSaved       \* ghost: the list was changed since the page of a user loaded it

permissionVars == <<editAllowList, pageList, edit, saves, listSaved>>

\* A request.  Ghosts: the page offered it; the list was changed after the page had loaded it
\* and before Grafana passed the request on.
Edits ==
    [state: {"none", "sent", "passed", "accepted", "refused"}, user: Users \cup {Nobody},
     settings: SUBSET Emails, offered: BOOLEAN, stale: BOOLEAN]
Request(offered, stale) ==
    [state |-> "sent", user |-> Nobody, settings |-> {}, offered |-> offered, stale |-> stale]
NoEdit == [Request(FALSE, FALSE) EXCEPT !.state = "none"]

PermissionTypeOK ==
    /\ editAllowList \subseteq Emails
    /\ pageList \in [Users -> (SUBSET Emails) \cup {Unreadable}]
    /\ edit \in [Users -> Edits]
    /\ saves \in 0..MaxSaves
    /\ listSaved \in [Users -> BOOLEAN]

\* A user's e-mail is in a list, however the two are written.
Listed(u, list) == \E entry \in list : Normal[entry] = Normal[Email[u]]

\* canEdit: the role in the organisation, then the list of the settings.
CanEdit(user, settings) ==
    /\ user # Nobody
    /\ \/ Role[user] = "Admin"
       \/ Role[user] = "Editor" /\ Listed(user, settings)

\* canEditTopology: with the list of the page.
OfferedToEditors(u) ==
    /\ u \in SignedIn
    /\ \/ Role[u] = "Admin" \/ u \in ServerAdmins
       \/ Role[u] = "Editor" /\ pageList[u] # Unreadable
Offered(u) ==
    /\ u \in SignedIn
    /\ \/ Role[u] = "Admin" \/ u \in ServerAdmins
       \/ /\ Role[u] = "Editor" /\ pageList[u] # Unreadable
          /\ Listed(u, pageList[u])

\* The settings may be unreadable, which the page is shown without.
PermissionInit ==
    /\ editAllowList \in SUBSET Emails
    /\ pageList \in [Users -> {editAllowList, Unreadable}]
    /\ edit = [u \in Users |-> NoEdit]
    /\ saves = 0
    /\ listSaved = [u \in Users |-> FALSE]

\* An admin adds an e-mail, which the configuration page normalises first, or removes one.
SaveList ==
    /\ saves < MaxSaves
    /\ \/ \E m \in Emails :
            /\ Normal[m] \notin editAllowList
            /\ editAllowList' = editAllowList \cup {Normal[m]}
       \/ \E m \in editAllowList : editAllowList' = editAllowList \ {m}
    /\ saves' = saves + 1
    /\ listSaved' = [u \in Users |-> TRUE]
    /\ edit' = [u \in Users |-> IF edit[u].state = "sent" THEN [edit[u] EXCEPT !.stale = TRUE] ELSE edit[u]]
    /\ UNCHANGED pageList

\* readPluginSettings takes the list out of the settings.
PluginSettings == editAllowList

\* The page of a user is loaded, or loaded again.
LoadPage(u) ==
    /\ \/ /\ pageList' = [pageList EXCEPT ![u] = PluginSettings]
          /\ listSaved' = [listSaved EXCEPT ![u] = FALSE]
       \/ /\ pageList' = [pageList EXCEPT ![u] = Unreadable]
          /\ UNCHANGED listSaved
    /\ UNCHANGED <<editAllowList, edit, saves>>

Send(u, request) ==
    /\ edit[u].state \notin {"sent", "passed"}
    /\ edit' = [edit EXCEPT ![u] = request]
    /\ UNCHANGED <<editAllowList, pageList, saves, listSaved>>

\* A user edits what the page lets them edit.
Edit(u) == Offered(u) /\ Send(u, Request(TRUE, listSaved[u]))

\* The routes are open to whoever can reach them.
Call(u) == Send(u, Request(FALSE, FALSE))

\* Grafana passes the request on, with the user, if it is signed in, and with the settings as they
\* are then.  Whether it has a user for an anonymous request isn't for this code to know.
Pass(u) ==
    /\ edit[u].state = "sent"
    /\ \E user \in IF u \in SignedIn THEN {u} ELSE {u, Nobody} :
          edit' = [edit EXCEPT ![u] = [@ EXCEPT !.state = "passed", !.user = user, !.settings = editAllowList]]
    /\ UNCHANGED <<editAllowList, pageList, saves, listSaved>>

\* requireEdit
Handle(u) ==
    /\ edit[u].state = "passed"
    /\ edit' = [edit EXCEPT ![u].state =
                   IF CanEdit(edit[u].user, edit[u].settings) THEN "accepted" ELSE "refused"]
    /\ UNCHANGED <<editAllowList, pageList, saves, listSaved>>

PermissionNext ==
    SaveList \/ \E u \in Users : LoadPage(u) \/ Edit(u) \/ Call(u) \/ Pass(u) \/ Handle(u)

PermissionSpec == PermissionInit /\ [][PermissionNext]_permissionVars

-----------------------------------------------------------------------------
(* Properties                                                                *)

\* No user but a server admin is offered to edit and then refused, unless the list was
\* changed after the page loaded it: the two checks, in two languages and with two copies of the
\* list, agree on everybody else, however e-mails are written.
OffersAreHonoured ==
    \A u \in Users \ ServerAdmins :
        edit[u].offered /\ ~edit[u].stale => edit[u].state # "refused"
=============================================================================
