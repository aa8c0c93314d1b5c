--------------------------- MODULE LandingToggle ---------------------------
(***************************************************************************)
(* The switches of the demo landing page (demo-landing, Rust).             *)
(*                                                                         *)
(* GET / fetches every file with a switch from Forgejo and renders the     *)
(* switch as a form that carries the file's blob SHA and the value shown.  *)
(* POST /toggle fetches the file again, sets the flag to the opposite of   *)
(* the value shown, and commits the result under the form's SHA, which     *)
(* Forgejo compares with the blob at that moment.  Browser tabs, people    *)
(* who push to the repository and Forgejo's answers interleave freely; a   *)
(* request that timed out may still be applied.                            *)
(***************************************************************************)
EXTENDS Integers, FiniteSets

CONSTANTS
    Tabs,        \* browser tabs
    Paths,       \* files with a switch
    Keys,        \* YAML key paths of the switches of a file
    Texts,       \* the rest of a file
    BrokenTexts, \* those that do not parse as YAML
    NoFile,      \* a file that does not exist
    Unread,      \* a file GET / has not fetched yet
    Failed,      \* a file it could not fetch
    InitialFile, \* what every file holds at first
    Pushes,      \* the contents other people push, NoFile to delete
    MaxLoads,    \* bound: tab -> page loads
    MaxClicks,   \* bound: tab -> clicks
    MaxPushes    \* bound: pushes by other people

Flags == {"true", "false", "bad"}    \* "bad": missing, or no boolean
Content == [flags: [Keys -> Flags], text: Texts, tidy: BOOLEAN]

ASSUME ConstantsAssumption ==
    /\ BrokenTexts \subseteq Texts
    /\ InitialFile \in Content
    /\ Pushes \subseteq Content \union {NoFile}
    /\ {NoFile, Unread, Failed} \intersect Content = {}
    /\ NoFile # Unread /\ NoFile # Failed /\ Unread # Failed
    /\ MaxLoads \in [Tabs -> Nat] /\ MaxClicks \in [Tabs -> Nat] /\ MaxPushes \in Nat

VARIABLES
    repo,      \* path -> content on the branch; a blob SHA stands for its content
    admins,    \* tabs whose user has the admin role now
    pc,        \* tab -> what the page or its request is doing
    page,      \* tab -> path -> what GET / fetched for the page shown
    forms,     \* tab -> whether the page has forms or read-only switches
    form,      \* tab -> [path, key] of its last click
    answer,    \* tab -> the answer to its last click
    puts,      \* commit requests Forgejo has not handled yet
    reply,     \* tab -> Forgejo's reply to the commit request of its last click
    loads, clicks, pushes

\* History, for the properties.
VARIABLES
    moved,     \* tab -> path -> whether the file changed since the page's fetch
    applied    \* tab -> whether the commit of its last click was applied

tabs == <<pc, page, forms, form, answer, reply, loads, clicks, applied>>
vars == <<repo, admins, tabs, puts, pushes, moved>>

Flip(flag) == IF flag = "true" THEN "false" ELSE "true"
Parses(c) == c.text \notin BrokenTexts
Shown(t, p) == page[t][p]

\* get_yaml_bool_at_path and set_yaml_bool_at_path fail on the same files.
IsBool(c, k) == Parses(c) /\ c.flags[k] # "bad"

\* The file with the flag set; serde_yaml writes it back in its own layout.
Set(c, k, flag) == [c EXCEPT !.flags[k] = flag, !.tidy = TRUE]

NoPage == [p \in Paths |-> Unread]

Init ==
    /\ repo = [p \in Paths |-> InitialFile]
    /\ admins \in SUBSET Tabs
    /\ pc = [t \in Tabs |-> "blank"]
    /\ page = [t \in Tabs |-> NoPage]
    /\ forms = [t \in Tabs |-> FALSE]
    /\ form \in [Tabs -> Paths \X Keys]
    /\ answer = [t \in Tabs |-> "none"]
    /\ puts = {}
    /\ reply = [t \in Tabs |-> "none"]
    /\ loads = [t \in Tabs |-> 0]
    /\ clicks = [t \in Tabs |-> 0]
    /\ pushes = 0
    /\ moved = [t \in Tabs |-> [p \in Paths |-> FALSE]]
    /\ applied = [t \in Tabs |-> FALSE]

\* A change of a file, by whomever.
Write(p, c) ==
    /\ repo' = [repo EXCEPT ![p] = c]
    /\ moved' = [t \in Tabs |-> [moved[t] EXCEPT ![p] = TRUE]]

----------------------------------------------------------------------------
(***************************************************************************)
(* GET /                                                                   *)
(***************************************************************************)

\* The role decides at the start of the request whether switches are forms.
Load(t) ==
    /\ pc[t] \in {"blank", "page"}
    /\ loads[t] < MaxLoads[t]
    /\ pc' = [pc EXCEPT ![t] = "loading"]
    /\ page' = [page EXCEPT ![t] = NoPage]
    /\ forms' = [forms EXCEPT ![t] = t \in admins]
    /\ answer' = [answer EXCEPT ![t] = "none"]
    /\ loads' = [loads EXCEPT ![t] = @ + 1]
    /\ UNCHANGED <<repo, admins, form, puts, reply, clicks, pushes, moved, applied>>

\* The files are fetched once each and concurrently.
Fetch(t, p) ==
    /\ pc[t] = "loading"
    /\ page[t][p] = Unread
    /\ \E got \in {repo[p], Failed} : page' = [page EXCEPT ![t][p] = got]
    /\ moved' = [moved EXCEPT ![t][p] = FALSE]
    /\ UNCHANGED <<repo, admins, pc, forms, form, answer, puts, reply, loads, clicks, pushes, applied>>

Render(t) ==
    /\ pc[t] = "loading"
    /\ \A p \in Paths : page[t][p] # Unread
    /\ pc' = [pc EXCEPT ![t] = "page"]
    /\ UNCHANGED <<repo, admins, page, forms, form, answer, puts, reply, loads, clicks, pushes, moved, applied>>

----------------------------------------------------------------------------
(***************************************************************************)
(* POST /toggle                                                            *)
(***************************************************************************)

\* The switch is a form when its file was fetched and holds the boolean;
\* otherwise the page shows an error in its place.
HasForm(t, p, k) ==
    /\ forms[t]
    /\ Shown(t, p) \notin {NoFile, Failed, Unread}
    /\ IsBool(Shown(t, p), k)

\* Answer the click.
Reply(t, a) ==
    /\ answer' = [answer EXCEPT ![t] = a]
    /\ pc' = [pc EXCEPT ![t] = "page"]

\* A click, also a second one on a page that was already answered (the back
\* button keeps the form); require_admin looks at the role of this request.
Click(t, p, k) ==
    /\ pc[t] = "page"
    /\ HasForm(t, p, k)
    /\ clicks[t] < MaxClicks[t]
    /\ clicks' = [clicks EXCEPT ![t] = @ + 1]
    /\ form' = [form EXCEPT ![t] = <<p, k>>]
    /\ applied' = [applied EXCEPT ![t] = FALSE]
    /\ reply' = [reply EXCEPT ![t] = "none"]
    /\ \/ /\ t \in admins
          /\ pc' = [pc EXCEPT ![t] = "get"]
          /\ answer' = [answer EXCEPT ![t] = "none"]
       \/ t \notin admins /\ Reply(t, "forbidden")
    /\ UNCHANGED <<repo, admins, page, forms, puts, loads, pushes, moved>>

\* The fresh file cannot be had: 404, another status, or the 10 s timeout.
GetFails(t) ==
    /\ pc[t] = "get"
    /\ Reply(t, "forgejo error")
    /\ UNCHANGED <<repo, admins, page, forms, form, puts, reply, loads, clicks, pushes, moved, applied>>

\* It is no YAML any more, or the flag is gone.
GetUnusable(t) ==
    LET fresh == repo[form[t][1]] IN
    /\ pc[t] = "get"
    /\ fresh # NoFile
    /\ ~IsBool(fresh, form[t][2])
    /\ Reply(t, "yaml error")
    /\ UNCHANGED <<repo, admins, page, forms, form, puts, reply, loads, clicks, pushes, moved, applied>>

Request(t, p, k, new, sha) ==
    [tab |-> t, click |-> clicks[t], path |-> p, key |-> k, content |-> new, sha |-> sha]

CommitOfFresh(t, p, k, fresh, seen) == Request(t, p, k, Set(fresh, k, Flip(seen.flags[k])), fresh)

\* The fresh content with the flag opposite to the one seen, under the SHA of
\* the content seen.
Commit(t, p, k, fresh, seen) == Request(t, p, k, Set(fresh, k, Flip(seen.flags[k])), seen)

GetThenPut(t) ==
    LET p == form[t][1]
        k == form[t][2]
        fresh == repo[p]
    IN /\ pc[t] = "get"
       /\ fresh # NoFile
       /\ IsBool(fresh, k)
       /\ puts' = puts \union {Commit(t, p, k, fresh, Shown(t, p))}
       /\ pc' = [pc EXCEPT ![t] = "put"]
       /\ UNCHANGED <<repo, admins, page, forms, form, answer, reply, loads, clicks, pushes, moved, applied>>

AnswerToLoose(r) ==
    CASE r = "ok" -> "redirect"
      [] r \in {"conflict", "unprocessable"} -> "stale view"
      [] OTHER -> "forgejo error"

\* 200 or 201; 409, or 422 that says the SHA does not match; anything else.
AnswerTo(r) ==
    CASE r = "ok" -> "redirect"
      [] r = "conflict" -> "stale view"
      [] OTHER -> "forgejo error"

Answered(t) ==
    /\ pc[t] = "put"
    /\ reply[t] # "none"
    /\ Reply(t, AnswerTo(reply[t]))
    /\ UNCHANGED <<repo, admins, page, forms, form, puts, reply, loads, clicks, pushes, moved, applied>>

TimesOutNever(t) == FALSE

\* No answer within 10 s, although the request may be handled later.
TimesOut(t) ==
    /\ pc[t] = "put"
    /\ Reply(t, "forgejo error")
    /\ UNCHANGED <<repo, admins, page, forms, form, puts, reply, loads, clicks, pushes, moved, applied>>

\* The user stops the request or closes the connection; the handler's future
\* is dropped where it is.
Aborts(t) ==
    /\ pc[t] \in {"get", "put"}
    /\ pc' = [pc EXCEPT ![t] = "page"]
    /\ UNCHANGED <<repo, admins, page, forms, form, answer, puts, reply, loads, clicks, pushes, moved, applied>>

----------------------------------------------------------------------------
(***************************************************************************)
(* Forgejo, the people who push, and Keycloak's roles.                     *)
(***************************************************************************)

\* Only the request of the tab's last click has someone waiting for it.
Replies(m, r) ==
    reply' = IF m.click = clicks[m.tab] THEN [reply EXCEPT ![m.tab] = r] ELSE reply

Applies(m) ==
    /\ repo[m.path] = m.sha
    /\ Write(m.path, m.content)
    /\ Replies(m, "ok")
    /\ applied' = IF m.click = clicks[m.tab] THEN [applied EXCEPT ![m.tab] = TRUE] ELSE applied
    /\ puts' = puts \ {m}
    /\ UNCHANGED <<admins, pc, page, forms, form, answer, loads, clicks, pushes>>

Refuses(m) ==
    /\ \/ repo[m.path] # m.sha /\ repo[m.path] # NoFile /\ Replies(m, "conflict")
       \/ \E r \in {"unprocessable", "failed"} : Replies(m, r)
    /\ puts' = puts \ {m}
    /\ UNCHANGED <<repo, admins, pc, page, forms, form, answer, loads, clicks, pushes, moved, applied>>

Push(p) ==
    /\ pushes < MaxPushes
    /\ \E c \in Pushes \ {repo[p]} : Write(p, c)
    /\ pushes' = pushes + 1
    /\ UNCHANGED <<admins, tabs, puts>>

Revoke(t) ==
    /\ t \in admins
    /\ admins' = admins \ {t}
    /\ UNCHANGED <<repo, tabs, puts, pushes, moved>>

----------------------------------------------------------------------------
Handler(t) ==
    \/ \E p \in Paths : Fetch(t, p)
    \/ Render(t)
    \/ GetFails(t) \/ GetUnusable(t) \/ GetThenPut(t)
    \/ Answered(t) \/ TimesOut(t)

User(t) ==
    \/ Load(t)
    \/ \E p \in Paths, k \in Keys : Click(t, p, k)
    \/ Aborts(t)

Forgejo == \E m \in puts : Applies(m) \/ Refuses(m)

Next ==
    \/ \E t \in Tabs : User(t) \/ Handler(t) \/ Revoke(t)
    \/ Forgejo
    \/ \E p \in Paths : Push(p)

Spec == Init /\ [][Next]_vars

\* Every request is answered because the HTTP client times out; Forgejo itself
\* is not assumed to do anything.
FairSpec == Spec /\ \A t \in Tabs : WF_vars(Handler(t))

----------------------------------------------------------------------------
(***************************************************************************)
(* Properties.                                                             *)
(***************************************************************************)

Phases == {"blank", "loading", "page", "get", "put"}
Answers == {"none", "forbidden", "redirect", "stale view", "yaml error", "forgejo error"}
Requests == [tab: Tabs, click: Nat, path: Paths, key: Keys, content: Content, sha: Content]

\* Whoever is past the click holds a form with a boolean, and every commit
\* request replaces a file that parses and has the boolean by another one.
TypeOK ==
    /\ repo \in [Paths -> Content \union {NoFile}]
    /\ admins \subseteq Tabs
    /\ pc \in [Tabs -> Phases]
    /\ page \in [Tabs -> [Paths -> Content \union {NoFile, Unread, Failed}]]
    /\ forms \in [Tabs -> BOOLEAN]
    /\ form \in [Tabs -> Paths \X Keys]
    /\ answer \in [Tabs -> Answers]
    /\ puts \subseteq Requests
    /\ reply \in [Tabs -> {"none", "ok", "conflict", "unprocessable", "failed"}]
    /\ loads \in [Tabs -> Nat] /\ clicks \in [Tabs -> Nat]
    /\ pushes \in 0..MaxPushes
    /\ moved \in [Tabs -> [Paths -> BOOLEAN]] /\ applied \in [Tabs -> BOOLEAN]
    /\ \A t \in Tabs : pc[t] \in {"get", "put"} => HasForm(t, form[t][1], form[t][2])
    /\ \A m \in puts : \A c \in {m.sha, m.content} :
          c.text \notin BrokenTexts /\ c.flags[m.key] \in {"true", "false"}

\* The commit request m is applied in this step.
AppliedNow(m) == m \in puts /\ m \notin puts' /\ repo'[m.path] # repo[m.path]

\* A commit of the landing page flips the switch that was clicked: it never
\* writes the value the file has already, not when two tabs click the same
\* switch and not when a request is sent twice or applied late.
FlipsTheSwitch ==
    [][\A m \in puts : AppliedNow(m) =>
          repo'[m.path].flags[m.key] = Flip(repo[m.path].flags[m.key])]_vars

\* The answers are true: a redirect means that this click's commit is on the
\* branch, every other definite answer that it is not, and "The file changed
\* since the page loaded" that it did.
TrueAnswers ==
    \A t \in Tabs :
        /\ answer[t] = "redirect" => applied[t]
        /\ answer[t] \in {"forbidden", "yaml error", "stale view"} => ~applied[t]
        /\ answer[t] = "stale view" => moved[t][form[t][1]]

\* Every click is answered, whatever Forgejo does, unless the user gives up.
EveryClickEnds == \A t \in Tabs : pc[t] \in {"get", "put"} ~> pc[t] = "page"
=============================================================================
