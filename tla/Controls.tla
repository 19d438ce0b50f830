------------------------------ MODULE Controls ------------------------------
(***************************************************************************)
(* The command controls of the home page, composed with the HTTP adapter   *)
(* their requests go through: the group controls                          *)
(* (views/home/group-control.tsx), the slot migration form                 *)
(* (views/home/slots-control.tsx), the start / stop button of the          *)
(* migration list (views/home/migrate-table.tsx) and the proxy card        *)
(* (views/home/proxy.tsx).                                                 *)
(*                                                                         *)
(* Each control awaits one façade request.  What it does once the promise *)
(* settles differs: the @Emit('update') handlers emit when it resolves     *)
(* (so also on the undefined an HTTP error resolves to) and never when it  *)
(* rejects; onClickAddGroup catches the rejection, so it always emits;     *)
(* the proxy's sync and delete handlers call $emit('update') after the    *)
(* await; the migrate and cross-cloud confirms and forceDel emit nothing.  *)
(* (The proxy card's add, hot-key, slow-key and log handlers are never    *)
(* bound to anything it renders.)  An update event makes the page fetch   *)
(* its data again (the page, views/Home, is not in the repository: its    *)
(* refetch is modelled from the spec).                                     *)
(*                                                                         *)
(* The text fields (new group id, server address, target group id) are    *)
(* read only by the buttons' guards and requests, so their contents are    *)
(* chosen when a button is clicked.  A group id typed is one of five       *)
(* texts: empty, the decimal of group 1 or of group 2, a non-canonical     *)
(* decimal of group 1 ("01"), or not a number.                             *)
(***************************************************************************)
EXTENDS HttpAdapter

IdTexts == {"", "1", "01", "2", "x"}

\* Number(t) of a typed text; NaN is -1 (every comparison with it is false,
\* and so is -1 > 0).
Number(t) == CASE t = ""            -> 0
               [] t \in {"1", "01"} -> 1
               [] t = "2"           -> 2
               [] OTHER             -> -1

\* id.toString() of a group id.
IdToString(n) == IF n = 1 THEN "1" ELSE "2"

\* The handlers, by what they do once their promise settles.
EmitOps == {"syncAll", "enableAll", "disableAll", "addServer",
            "migrateRange", "migrateSome"}
ProxyOps == {"syncProxy", "deleteProxy"}
SilentOps == {"migrate", "crossCloud", "forceDel"}
COps == {"none", "cloudType", "addGroup"} \cup EmitOps \cup ProxyOps \cup SilentOps

\* What call c was issued for, and the value it carried: a typed group id,
\* or the 0 / 1 of the migrate and cross-cloud switches.
CReq == [op : COps, id : IdTexts, val : {0, 1}]

NoCReq == [op |-> "none", id |-> "", val |-> 0]

VARIABLES
    groups,       \* the group ids the control plane holds
    disabled,     \* the control plane's slot-action disabled flag
    cross,        \* the control plane's read-cross-cloud flag
    pageGroups,   \* the ids of the groups the page passed as models
    pageDisabled, \* slotAction.disabled as the page passed it
    pageCross,    \* readCrossCloud as the page passed it
    created,      \* group-control's created() has issued getCloudType
    cloudList,    \* CLOUD_TYPE_LIST is filled (and addServer.cloudType set)
    isOpenRange,  \* isOpenRange
    isOpenSome,   \* isOpenSome
    mDialog,      \* migrate-table's dialog: its type while open, -1 closed
    pDialog,      \* proxy's dialog: its val while open, -1 closed
    creq,         \* creq[c]: what call c was issued for
    emitted       \* emitted[c]: the handler of c emitted update

backVars == <<groups, disabled, cross>>

pageVars == <<pageGroups, pageDisabled, pageCross>>

formVars == <<created, cloudList, isOpenRange, isOpenSome, mDialog, pDialog>>

ctrlVars == <<backVars, pageVars, formVars, creq, emitted>>

allVars == <<adapterVars, ctrlVars>>

-----------------------------------------------------------------------------
(* Translation of the code.                                                *)

\* groupIdList: the ids of the models, as strings.
GroupIdList == {IdToString(n) : n \in pageGroups}

\* canAddServer: a non-empty server address, and a group id equal to one
\* of the models' ids.
CanAddServer(server, groupId) == server # "" /\ groupId \in GroupIdList

\* Mutant: the button's guard without the Number check.
CanAddGroupNoNumber(newGroupId) ==
    /\ newGroupId # ""
    /\ \A id \in GroupIdList : id # newGroupId

\* canAddGroup: a non-empty text, Number of it above 0, and no model id
\* equal to it as a string.
CanAddGroup(newGroupId) ==
    /\ newGroupId # ""
    /\ Number(newGroupId) > 0
    /\ \A id \in GroupIdList : id # newGroupId

\* Whether the handler of op gets past its await once its promise ends
\* with k and reaches the emit: onClickAddGroup swallows the rejection in
\* its catch; the other emitting handlers only continue when it resolves.
Resumes(op, k) ==
    CASE op = "addGroup"              -> TRUE
      [] op \in EmitOps \cup ProxyOps -> Outcome(k) # "rejected"
      [] OTHER                        -> FALSE

\* The handler of call c, issued for q, reaches its emit after k.
Emit(c, q, k) ==
    emitted' = IF Resumes(q.op, k) THEN [emitted EXCEPT ![c] = TRUE] ELSE emitted

\* A handler issues q on call c and awaits it.  A request the token check
\* stops rejects in the same task, so the handler's rest runs at once.
Issue(c, q) ==
    /\ Request(c)
    /\ creq' = [creq EXCEPT ![c] = q]
    /\ IF answer'[c] = "blocked" THEN Emit(c, q, "blocked") ELSE UNCHANGED emitted
    /\ UNCHANGED <<backVars, pageVars>>

\* The confirm dialogs are modal: a click outside one closes it (as its
\* cancel does), so the page's buttons are only reached while both are
\* closed.
NoDialog == mDialog = -1 /\ pDialog = -1

\* created(): GET /constants.
Created(c) ==
    /\ ~created
    /\ created' = TRUE
    /\ Issue(c, [NoCReq EXCEPT !.op = "cloudType"])
    /\ UNCHANGED <<cloudList, isOpenRange, isOpenSome, mDialog, pDialog>>

\* Its answer: data.data.data.clouds fills CLOUD_TYPE_LIST and its first
\* entry becomes addServer.cloudType.  Any other answer throws in the
\* await or in reading the payload, and nothing is set.
CloudTypeAnswer(c, k) ==
    /\ creq[c].op = "cloudType"
    /\ Respond(c, k)
    /\ cloudList' = (cloudList \/ k = "ok")
    /\ UNCHANGED <<backVars, pageVars, created, isOpenRange, isOpenSome,
                   mDialog, pDialog, creq, emitted>>

\* The new-group button, enabled by canAddGroup: addGroup(newGroupId).
AddGroupClick(c, newGroupId) ==
    /\ CanAddGroup(newGroupId)
    /\ NoDialog
    /\ Issue(c, [NoCReq EXCEPT !.op = "addGroup", !.id = newGroupId])
    /\ UNCHANGED formVars

\* The add-server button, enabled by canAddServer:
\* addServerToGroup(this.addServer).
AddServerClick(c, server, groupId) ==
    /\ CanAddServer(server, groupId)
    /\ NoDialog
    /\ Issue(c, [NoCReq EXCEPT !.op = "addServer", !.id = groupId])
    /\ UNCHANGED formVars

\* The confirm of the sync-all, enable-all and disable-all menus.
AllClick(op, c) ==
    /\ NoDialog
    /\ Issue(c, [NoCReq EXCEPT !.op = op])
    /\ UNCHANGED formVars

\* The Range and Some buttons of the slot form toggle their fields.
ToggleRange ==
    /\ NoDialog
    /\ isOpenRange' = ~isOpenRange
    /\ UNCHANGED <<adapterVars, backVars, pageVars, created, cloudList,
                   isOpenSome, mDialog, pDialog, creq, emitted>>

ToggleSome ==
    /\ NoDialog
    /\ isOpenSome' = ~isOpenSome
    /\ UNCHANGED <<adapterVars, backVars, pageVars, created, cloudList,
                   isOpenRange, mDialog, pDialog, creq, emitted>>

\* Migrate Range / Migrate Some, shown while their fields are open:
\* createRange(this.range) / createSome(this.some).  The fields' rules
\* only show hints; nothing stops the request.
MigrateClick(op, c) ==
    /\ NoDialog
    /\ \/ op = "migrateRange" /\ isOpenRange
       \/ op = "migrateSome" /\ isOpenSome
    /\ Issue(c, [NoCReq EXCEPT !.op = op])
    /\ UNCHANGED formVars

\* The migration list's button: "start migrate" (clickBtn(0)) while the
\* page's slotAction is disabled, else "stop migrate" (clickBtn(1)); the
\* click opens the confirm dialog and records the type.
MigrateBtn ==
    /\ NoDialog
    /\ mDialog' = IF pageDisabled THEN 0 ELSE 1
    /\ UNCHANGED <<adapterVars, backVars, pageVars, created, cloudList,
                   isOpenRange, isOpenSome, pDialog, creq, emitted>>

\* The proxy card's cross-cloud button: "forbid" (crossCloud(0)) while the
\* page's readCrossCloud is set, else "allow" (crossCloud(1)).
CrossBtn ==
    /\ NoDialog
    /\ pDialog' = IF pageCross THEN 0 ELSE 1
    /\ UNCHANGED <<adapterVars, backVars, pageVars, created, cloudList,
                   isOpenRange, isOpenSome, mDialog, creq, emitted>>

\* The dialogs' cancel.
MigrateCancel ==
    /\ mDialog # -1
    /\ mDialog' = -1
    /\ UNCHANGED <<adapterVars, backVars, pageVars, created, cloudList,
                   isOpenRange, isOpenSome, pDialog, creq, emitted>>

CrossCancel ==
    /\ pDialog # -1
    /\ pDialog' = -1
    /\ UNCHANGED <<adapterVars, backVars, pageVars, created, cloudList,
                   isOpenRange, isOpenSome, mDialog, creq, emitted>>

\* The dialogs' confirm (clickConfirm): the dialog closes, then
\* migrate(this.type) / crossCloud(this.val) is awaited.
MigrateConfirm(c) ==
    /\ mDialog # -1
    /\ mDialog' = -1
    /\ Issue(c, [NoCReq EXCEPT !.op = "migrate", !.val = mDialog])
    /\ UNCHANGED <<created, cloudList, isOpenRange, isOpenSome, pDialog>>

CrossConfirm(c) ==
    /\ pDialog # -1
    /\ pDialog' = -1
    /\ Issue(c, [NoCReq EXCEPT !.op = "crossCloud", !.val = pDialog])
    /\ UNCHANGED <<created, cloudList, isOpenRange, isOpenSome, mDialog>>

\* A proxy row's sync and DEL menus (onSync, onConfirmDeleteProxy), and
\* the delete icon of a row without stats (forceDel, not awaited).
ProxyClick(op, c) ==
    /\ NoDialog
    /\ Issue(c, [NoCReq EXCEPT !.op = op])
    /\ UNCHANGED formVars

\* The control plane's side of a command q: what 'OK' means it applied.
Applied(q) ==
    /\ groups' = IF q.op = "addGroup" THEN groups \cup {Number(q.id)} ELSE groups
    /\ disabled' = IF q.op = "migrate" THEN q.val = 1 ELSE disabled
    /\ cross' = IF q.op = "crossCloud" THEN q.val = 1 ELSE cross

\* q answered with k: applied on 'OK'; a network failure may come after
\* the control plane applied it.
Apply(q, k) ==
    CASE k = "ok"      -> Applied(q)
      [] k = "network" -> Applied(q) \/ UNCHANGED backVars
      [] OTHER         -> UNCHANGED backVars

\* The answer k to command call c reaches its handler.
CommandAnswer(c, k) ==
    /\ creq[c].op \notin {"none", "cloudType"}
    /\ Respond(c, k)
    /\ Apply(creq[c], k)
    /\ Emit(c, creq[c], k)
    /\ UNCHANGED <<pageVars, formVars, creq>>

\* The page's fetch of its data (after an update event, or a reload): the
\* models, slotAction and readCrossCloud it passes are the control plane's.
PageRefresh ==
    /\ pageVars # backVars
    /\ pageGroups' = groups
    /\ pageDisabled' = disabled
    /\ pageCross' = cross
    /\ UNCHANGED <<adapterVars, backVars, formVars, creq, emitted>>

-----------------------------------------------------------------------------

\* The page is shown with group 1, and the migrate and cross-cloud flags
\* as the control plane holds them.
CInit ==
    /\ Init
    /\ groups = {1}
    /\ disabled \in BOOLEAN
    /\ cross \in BOOLEAN
    /\ pageGroups = groups
    /\ pageDisabled = disabled
    /\ pageCross = cross
    /\ created = FALSE
    /\ cloudList = FALSE
    /\ isOpenRange = FALSE
    /\ isOpenSome = FALSE
    /\ mDialog = -1
    /\ pDialog = -1
    /\ creq = [c \in Calls |-> NoCReq]
    /\ emitted = [c \in Calls |-> FALSE]

CNext ==
    \/ \E c \in Calls :
          \/ Created(c)
          \/ \E t \in IdTexts : AddGroupClick(c, t)
          \/ \E s \in {"", "s"}, t \in IdTexts : AddServerClick(c, s, t)
          \/ \E op \in {"syncAll", "enableAll", "disableAll"} : AllClick(op, c)
          \/ \E op \in {"migrateRange", "migrateSome"} : MigrateClick(op, c)
          \/ MigrateConfirm(c)
          \/ CrossConfirm(c)
          \/ \E op \in ProxyOps \cup {"forceDel"} : ProxyClick(op, c)
    \/ \E c \in Calls, k \in Answers : CloudTypeAnswer(c, k) \/ CommandAnswer(c, k)
    \/ ToggleRange \/ ToggleSome
    \/ MigrateBtn \/ MigrateCancel \/ CrossBtn \/ CrossCancel
    \/ PageRefresh
    \/ (PanelNext \/ EnvNext) /\ UNCHANGED ctrlVars

CSpec == CInit /\ [][CNext]_allVars

-----------------------------------------------------------------------------
(* Properties.                                                             *)

ControlsTypeOK ==
    /\ groups \subseteq {1, 2} /\ pageGroups \subseteq {1, 2}
    /\ {disabled, cross, pageDisabled, pageCross} \subseteq BOOLEAN
    /\ {created, cloudList, isOpenRange, isOpenSome} \subseteq BOOLEAN
    /\ mDialog \in {-1, 0, 1} /\ pDialog \in {-1, 0, 1}
    /\ creq \in [Calls -> CReq]
    /\ emitted \in [Calls -> BOOLEAN]

=============================================================================
