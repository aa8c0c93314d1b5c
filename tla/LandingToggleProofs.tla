------------------------ MODULE LandingToggleProofs ------------------------
(***************************************************************************)
(* Proofs about LandingToggle for every set of tabs, files, switches and   *)
(* contents, and every number of loads, clicks and pushes.                 *)
(***************************************************************************)
EXTENDS LandingToggle, TLAPS

\* What holds of every commit request under way, whatever happens to its file:
\* its content has the opposite of the flag in the content its SHA stands for.
Opposite(m) ==
    /\ m.path \in Paths
    /\ m.key \in Keys
    /\ m.content \in Content
    /\ m.content.flags[m.key] = Flip(m.sha.flags[m.key])

FlipInv ==
    /\ repo \in [Paths -> Content \union {NoFile}]
    /\ form \in [Tabs -> Paths \X Keys]
    /\ \A m \in puts : Opposite(m)

\* Setting a flag keeps a file a file and sets it.
LEMMA SetType ==
  ASSUME NEW c \in Content, NEW k \in Keys, NEW flag \in Flags
  PROVE  Set(c, k, flag) \in Content /\ Set(c, k, flag).flags[k] = flag
  BY DEF Set, Content

LEMMA CommitOpposite ==
  ASSUME FlipInv, NEW t \in Tabs, GetThenPut(t)
  PROVE  FlipInv'
<1> DEFINE p == form[t][1]
           k == form[t][2]
           fresh == repo[p]
           m == Commit(t, p, k, fresh, Shown(t, p))
           flag == Flip(Shown(t, p).flags[k])
<1>1. p \in Paths /\ k \in Keys
  BY DEF FlipInv
<1>2. fresh \in Content
  BY <1>1 DEF GetThenPut, FlipInv
<1>3. flag \in Flags
  BY DEF Flip, Flags
<1>4. Set(fresh, k, flag) \in Content /\ Set(fresh, k, flag).flags[k] = flag
  BY <1>1, <1>2, <1>3, SetType
<1>5. /\ m.path = p /\ m.key = k
      /\ m.content = Set(fresh, k, flag)
      /\ m.sha = Shown(t, p)
  BY DEF Commit, Request
<1>6. Opposite(m)
  BY <1>1, <1>4, <1>5 DEF Opposite
<1>7. puts' = puts \union {m} /\ UNCHANGED <<repo, form>>
  BY DEF GetThenPut
<1> QED
  BY <1>6, <1>7 DEF FlipInv

LEMMA FlipInvStep ==
  ASSUME FlipInv, [Next]_vars
  PROVE  FlipInv'
<1>1. CASE UNCHANGED <<repo, puts, form>>
  BY <1>1 DEF FlipInv
<1>2. ASSUME NEW t \in Tabs, Handler(t)
      PROVE  FlipInv'
  <2>1. CASE GetThenPut(t)
    BY <2>1, CommitOpposite
  <2> QED
    BY <1>1, <1>2, <2>1 DEF Handler, Fetch, Render, GetFails, GetUnusable, Answered, TimesOut
<1>3. ASSUME NEW t \in Tabs, User(t)
      PROVE  FlipInv'
  <2>1. ASSUME NEW p \in Paths, NEW k \in Keys, Click(t, p, k)
        PROVE  FlipInv'
    BY <2>1 DEF Click, FlipInv
  <2> QED
    BY <1>1, <1>3, <2>1 DEF User, Load, Aborts
<1>4. ASSUME NEW t \in Tabs, Revoke(t)
      PROVE  FlipInv'
  BY <1>1, <1>4 DEF Revoke, tabs
<1>5. ASSUME NEW m \in puts, Applies(m)
      PROVE  FlipInv'
  BY <1>5 DEF Applies, Write, FlipInv, Opposite
<1>6. ASSUME NEW m \in puts, Refuses(m)
      PROVE  FlipInv'
  BY <1>6 DEF Refuses, FlipInv
<1>7. ASSUME NEW p \in Paths, Push(p)
      PROVE  FlipInv'
  BY <1>7, ConstantsAssumption DEF Push, Write, FlipInv, tabs
<1>8. CASE UNCHANGED vars
  BY <1>1, <1>8 DEF vars, tabs
<1> QED
  BY <1>2, <1>3, <1>4, <1>5, <1>6, <1>7, <1>8 DEF Next, Forgejo

\* Only Applies takes a request away and changes its file, and it does so when
\* the file is what the SHA of the request stands for.
LEMMA AppliesFlips ==
  ASSUME FlipInv, [Next]_vars, NEW m \in puts, AppliedNow(m)
  PROVE  repo'[m.path].flags[m.key] = Flip(repo[m.path].flags[m.key])
<1>1. m \notin puts' /\ repo'[m.path] # repo[m.path]
  BY DEF AppliedNow
<1>2. ~(UNCHANGED repo) /\ ~(UNCHANGED puts)
  BY <1>1
<1>3. PICK q \in puts : Applies(q)
  BY <1>1, <1>2 DEF Next, vars, tabs, User, Handler, Forgejo, Load, Click, Aborts, Fetch, Render, GetFails,
     GetUnusable, GetThenPut, Answered, TimesOut, Refuses, Push, Revoke
<1>4. q = m
  BY <1>1, <1>3 DEF Applies
<1>5. repo[m.path] = m.sha /\ repo' = [repo EXCEPT ![m.path] = m.content]
  BY <1>3, <1>4 DEF Applies, Write
<1> QED
  BY <1>5 DEF FlipInv, Opposite

\* No commit of the landing page writes the value a file has already: neither
\* concurrent clicks on one switch, nor a request that is sent again or applied
\* after its time-out, leave the switch where it was.
THEOREM CommitsFlip == Spec => FlipsTheSwitch
<1>1. Init => FlipInv
  BY ConstantsAssumption DEF Init, FlipInv
<1>2. FlipInv /\ [Next]_vars => FlipInv'
  BY FlipInvStep
<1>3. FlipInv /\ [Next]_vars =>
        [\A m \in puts : AppliedNow(m) =>
            repo'[m.path].flags[m.key] = Flip(repo[m.path].flags[m.key])]_vars
  BY AppliesFlips
<1> QED
  BY <1>1, <1>2, <1>3, PTL DEF Spec, FlipsTheSwitch

----------------------------------------------------------------------------
(***************************************************************************)
(* Type correctness.                                                       *)
(***************************************************************************)

RepoInv ==
    /\ repo \in [Paths -> Content \union {NoFile}]
    /\ admins \subseteq Tabs
    /\ pushes \in 0..MaxPushes
    /\ moved \in [Tabs -> [Paths -> BOOLEAN]]

Pages == [Paths -> Content \union {NoFile, Unread, Failed}]

TabsInv ==
    /\ pc \in [Tabs -> Phases]
    /\ page \in [Tabs -> Pages]
    /\ forms \in [Tabs -> BOOLEAN]
    /\ form \in [Tabs -> Paths \X Keys]
    /\ answer \in [Tabs -> Answers]
    /\ reply \in [Tabs -> {"none", "ok", "conflict", "unprocessable", "failed"}]
    /\ loads \in [Tabs -> Nat] /\ clicks \in [Tabs -> Nat]
    /\ applied \in [Tabs -> BOOLEAN]

FormInv == \A t \in Tabs : pc[t] \in {"get", "put"} => HasForm(t, form[t][1], form[t][2])

HasFlag(c, k) == c.text \notin BrokenTexts /\ c.flags[k] \in {"true", "false"}

PutsInv ==
    /\ puts \subseteq Requests
    /\ \A m \in puts : HasFlag(m.sha, m.key) /\ HasFlag(m.content, m.key)

TypeInv == RepoInv /\ TabsInv /\ FormInv /\ PutsInv

LEMMA InitType == Init => TypeInv
<1> SUFFICES ASSUME Init PROVE TypeInv
  OBVIOUS
<1>1. RepoInv
  BY ConstantsAssumption DEF Init, RepoInv
<1>2. TabsInv
  BY DEF Init, TabsInv, Pages, Phases, Answers, NoPage
<1>3. FormInv
  BY DEF Init, FormInv
<1>4. PutsInv
  BY DEF Init, PutsInv
<1> QED
  BY <1>1, <1>2, <1>3, <1>4 DEF TypeInv

\* Files are written with what people push and what requests carry.
LEMMA RepoStep ==
  ASSUME TypeInv, [Next]_vars
  PROVE  RepoInv'
<1>1. ASSUME NEW t \in Tabs, NEW p \in Paths, Fetch(t, p)
      PROVE  RepoInv'
  BY <1>1, ConstantsAssumption DEF Fetch, TypeInv, RepoInv
<1>2. ASSUME NEW m \in puts, Applies(m)
      PROVE  RepoInv'
  BY <1>2 DEF Applies, Replies, Write, TypeInv, PutsInv, Requests, RepoInv
<1>3. ASSUME NEW p \in Paths, Push(p)
      PROVE  RepoInv'
  BY <1>3, ConstantsAssumption DEF Push, Write, tabs, TypeInv, RepoInv
<1>4. ASSUME NEW t \in Tabs, Revoke(t)
      PROVE  RepoInv'
  BY <1>4, ConstantsAssumption DEF Revoke, tabs, TypeInv, RepoInv
<1>5. CASE UNCHANGED <<repo, admins, pushes, moved>>
  BY <1>5 DEF TypeInv, RepoInv
<1> QED
  BY <1>1, <1>2, <1>3, <1>4, <1>5
  DEF Next, User, Handler, Forgejo, vars, Load, Render, Click, Reply,
      GetFails, GetUnusable, GetThenPut, Answered, TimesOut, Aborts, Refuses,
      Replies, tabs

\* What the page shows and how far its request is.
LEMMA TabsStep ==
  ASSUME TypeInv, [Next]_vars
  PROVE  TabsInv'
<1>1. ASSUME NEW t \in Tabs, Load(t)
      PROVE  TabsInv'
  <2>1. NoPage \in Pages
    BY DEF NoPage, Pages
  <2>2. page' \in [Tabs -> Pages]
    BY <1>1, <2>1 DEF Load, TypeInv, TabsInv
  <2>3. pc' \in [Tabs -> Phases] /\ answer' \in [Tabs -> Answers]
    BY <1>1 DEF Load, Phases, Answers, TypeInv, TabsInv
  <2>4. forms' \in [Tabs -> BOOLEAN] /\ loads' \in [Tabs -> Nat]
    BY <1>1 DEF Load, TypeInv, TabsInv
  <2> QED
    BY <1>1, <2>2, <2>3, <2>4 DEF Load, TypeInv, TabsInv
<1>2. ASSUME NEW t \in Tabs, NEW p \in Paths, Fetch(t, p)
      PROVE  TabsInv'
  <2>1. PICK got \in {repo[p], Failed} : page' = [page EXCEPT ![t][p] = got]
    BY <1>2 DEF Fetch
  <2>2. got \in Content \union {NoFile, Unread, Failed}
    BY DEF TypeInv, RepoInv
  <2>3. page' \in [Tabs -> Pages]
    BY <2>1, <2>2 DEF TypeInv, TabsInv, Pages
  <2> QED
    BY <1>2, <2>3 DEF Fetch, TypeInv, TabsInv
<1>3. ASSUME NEW t \in Tabs, Render(t)
      PROVE  TabsInv'
  BY <1>3 DEF Render, Pages, Phases, Answers, TypeInv, TabsInv
<1>4. ASSUME NEW t \in Tabs, NEW p \in Paths, NEW k \in Keys, Click(t, p, k)
      PROVE  TabsInv'
  <2>1. pc' \in [Tabs -> Phases] /\ answer' \in [Tabs -> Answers]
    BY <1>4 DEF Click, Reply, Phases, Answers, TypeInv, TabsInv
  <2>2. form' \in [Tabs -> Paths \X Keys]
    BY <1>4 DEF Click, TypeInv, TabsInv
  <2>3. /\ clicks' \in [Tabs -> Nat]
        /\ applied' \in [Tabs -> BOOLEAN]
        /\ reply' \in [Tabs -> {"none", "ok", "conflict", "unprocessable", "failed"}]
    BY <1>4 DEF Click, TypeInv, TabsInv
  <2> QED
    BY <1>4, <2>1, <2>2, <2>3 DEF Click, TypeInv, TabsInv
<1>5. ASSUME NEW t \in Tabs, GetFails(t)
      PROVE  TabsInv'
  BY <1>5 DEF GetFails, Reply, Pages, Phases, Answers, TypeInv, TabsInv
<1>6. ASSUME NEW t \in Tabs, GetUnusable(t)
      PROVE  TabsInv'
  BY <1>6 DEF GetUnusable, Reply, Pages, Phases, Answers, TypeInv, TabsInv
<1>7. ASSUME NEW t \in Tabs, GetThenPut(t)
      PROVE  TabsInv'
  BY <1>7 DEF GetThenPut, Pages, Phases, Answers, TypeInv, TabsInv
<1>8. ASSUME NEW t \in Tabs, Answered(t)
      PROVE  TabsInv'
  <2>1. AnswerTo(reply[t]) \in Answers
    <3>1. reply[t] \in {"none", "ok", "conflict", "unprocessable", "failed"}
      BY DEF TypeInv, TabsInv
    <3> QED
      BY <3>1 DEF AnswerTo, Answers
  <2> QED
    BY <1>8, <2>1 DEF Answered, Reply, Phases, TypeInv, TabsInv
<1>9. ASSUME NEW t \in Tabs, TimesOut(t)
      PROVE  TabsInv'
  BY <1>9 DEF TimesOut, Reply, Pages, Phases, Answers, TypeInv, TabsInv
<1>10. ASSUME NEW t \in Tabs, Aborts(t)
      PROVE  TabsInv'
  BY <1>10 DEF Aborts, Pages, Phases, Answers, TypeInv, TabsInv
<1>11. ASSUME NEW m \in puts, Applies(m)
      PROVE  TabsInv'
  <2>1. \A r \in {"ok", "conflict", "unprocessable", "failed"} :
           Replies(m, r) => reply' \in [Tabs -> {"none", "ok", "conflict", "unprocessable", "failed"}]
    BY DEF Replies, TypeInv, TabsInv
  <2> QED
    BY <1>11, <2>1 DEF Applies, TypeInv, TabsInv
<1>12. ASSUME NEW m \in puts, Refuses(m)
      PROVE  TabsInv'
  <2>1. \A r \in {"ok", "conflict", "unprocessable", "failed"} :
           Replies(m, r) => reply' \in [Tabs -> {"none", "ok", "conflict", "unprocessable", "failed"}]
    BY DEF Replies, TypeInv, TabsInv
  <2> QED
    BY <1>12, <2>1 DEF Refuses, TypeInv, TabsInv
<1>13. CASE UNCHANGED <<pc, page, forms, form, answer, reply, loads, clicks, applied>>
  BY <1>13 DEF TypeInv, TabsInv
<1> QED
  BY <1>1, <1>2, <1>3, <1>4, <1>5, <1>6, <1>7, <1>8, <1>9, <1>10, <1>11, <1>12, <1>13
  DEF Next, User, Handler, Forgejo, vars, Push, Write, tabs, Revoke

\* The page stays while its request is going on.
LEMMA FormStep ==
  ASSUME TypeInv, [Next]_vars
  PROVE  FormInv'
<1>1. ASSUME NEW t \in Tabs, Load(t)
      PROVE  FormInv'
  BY <1>1 DEF Load, FormInv, HasForm, Shown, TypeInv, TabsInv
<1>2. ASSUME NEW t \in Tabs, NEW p \in Paths, Fetch(t, p)
      PROVE  FormInv'
  <2>1. \A u \in Tabs \ {t} : page'[u] = page[u]
    BY <1>2 DEF Fetch, TypeInv, TabsInv
  <2> QED
    BY <1>2, <2>1 DEF Fetch, FormInv, TypeInv, HasForm, Shown
<1>3. ASSUME NEW t \in Tabs, Render(t)
      PROVE  FormInv'
  BY <1>3 DEF Render, FormInv, HasForm, Shown, TypeInv, TabsInv
<1>4. ASSUME NEW t \in Tabs, NEW p \in Paths, NEW k \in Keys, Click(t, p, k)
      PROVE  FormInv'
  <2>1. HasForm(t, p, k)'
    BY <1>4 DEF Click, Reply, HasForm, Shown
  <2>2. form'[t] = <<p, k>> /\ \A u \in Tabs \ {t} : form'[u] = form[u] /\ pc'[u] = pc[u]
    BY <1>4 DEF Click, Reply, TypeInv, TabsInv
  <2> QED
    BY <1>4, <2>1, <2>2 DEF Click, FormInv, TypeInv, HasForm, Shown
<1>5. ASSUME NEW t \in Tabs, GetFails(t)
      PROVE  FormInv'
  BY <1>5 DEF GetFails, Reply, FormInv, HasForm, Shown, TypeInv, TabsInv
<1>6. ASSUME NEW t \in Tabs, GetUnusable(t)
      PROVE  FormInv'
  BY <1>6 DEF GetUnusable, Reply, FormInv, HasForm, Shown, TypeInv, TabsInv
<1>7. ASSUME NEW t \in Tabs, GetThenPut(t)
      PROVE  FormInv'
  BY <1>7 DEF GetThenPut, FormInv, HasForm, Shown, TypeInv, TabsInv
<1>8. ASSUME NEW t \in Tabs, Answered(t)
      PROVE  FormInv'
  BY <1>8 DEF Answered, Reply, FormInv, HasForm, Shown, TypeInv, TabsInv
<1>9. ASSUME NEW t \in Tabs, TimesOut(t)
      PROVE  FormInv'
  BY <1>9 DEF TimesOut, Reply, FormInv, HasForm, Shown, TypeInv, TabsInv
<1>10. ASSUME NEW t \in Tabs, Aborts(t)
      PROVE  FormInv'
  BY <1>10 DEF Aborts, FormInv, HasForm, Shown, TypeInv, TabsInv
<1>11. CASE UNCHANGED <<pc, page, forms, form>>
  BY <1>11 DEF TypeInv, FormInv, HasForm, Shown
<1> QED
  BY <1>1, <1>2, <1>3, <1>4, <1>5, <1>6, <1>7, <1>8, <1>9, <1>10, <1>11
  DEF Next, User, Handler, Forgejo, vars, Applies, Replies, Write, Refuses,
      Push, tabs, Revoke

\* A request replaces a file with the boolean by one with the boolean.
LEMMA PutsStep ==
  ASSUME TypeInv, [Next]_vars
  PROVE  PutsInv'
<1>1. ASSUME NEW t \in Tabs, GetThenPut(t)
      PROVE  PutsInv'
  <2> DEFINE p == form[t][1]
             k == form[t][2]
             fresh == repo[p]
             seen == Shown(t, p)
             m == Commit(t, p, k, fresh, seen)
             flag == Flip(seen.flags[k])
  <2>1. p \in Paths /\ k \in Keys
    BY DEF TypeInv, TabsInv
  <2>2. fresh \in Content /\ IsBool(fresh, k)
    BY <1>1, <2>1 DEF GetThenPut, TypeInv, RepoInv
  <2>3. seen \in Content /\ IsBool(seen, k)
    BY <1>1, <2>1 DEF GetThenPut, TypeInv, FormInv, TabsInv, Pages, HasForm, Shown
  <2>4. flag \in {"true", "false"}
    BY DEF Flip
  <2>5. Set(fresh, k, flag) \in Content /\ Set(fresh, k, flag).flags[k] = flag
        /\ Set(fresh, k, flag).text = fresh.text
    BY <2>1, <2>2, <2>4 DEF Set, Content, Flags
  <2>6. HasFlag(seen, k) /\ HasFlag(Set(fresh, k, flag), k)
    BY <2>1, <2>2, <2>3, <2>4, <2>5 DEF HasFlag, IsBool, Parses, Content, Flags
  <2>7. m = [tab |-> t, click |-> clicks[t], path |-> p, key |-> k, content |-> Set(fresh, k, flag), sha |-> seen]
    BY DEF Commit, Request
  <2>8. clicks[t] \in Nat /\ puts' = puts \union {m}
    BY <1>1 DEF GetThenPut, TypeInv, TabsInv
  <2> HIDE DEF p, k, fresh, seen, flag, m
  <2>9. m \in Requests /\ HasFlag(m.sha, m.key) /\ HasFlag(m.content, m.key)
    BY <2>1, <2>3, <2>5, <2>6, <2>7, <2>8 DEF Requests
  <2> QED
    BY <2>8, <2>9 DEF TypeInv, PutsInv
<1>2. ASSUME NEW m \in puts, Applies(m)
      PROVE  PutsInv'
  BY <1>2 DEF Applies, Replies, Write, TypeInv, PutsInv
<1>3. ASSUME NEW m \in puts, Refuses(m)
      PROVE  PutsInv'
  BY <1>3 DEF Refuses, Replies, TypeInv, PutsInv
<1>4. CASE UNCHANGED <<puts>>
  BY <1>4 DEF TypeInv, PutsInv
<1> QED
  BY <1>1, <1>2, <1>3, <1>4
  DEF Next, User, Handler, Forgejo, vars, Load, Fetch, Render, Click, Reply,
      GetFails, GetUnusable, Answered, TimesOut, Aborts, Push, Write, tabs,
      Revoke

LEMMA TypeInvAlways == Spec => []TypeInv
<1>1. TypeInv /\ [Next]_vars => TypeInv'
  BY RepoStep, TabsStep, FormStep, PutsStep DEF TypeInv
<1> QED
  BY <1>1, InitType, PTL DEF Spec

\* Type correctness, which says that whatever others push and however often
\* pages are loaded, a request never commits a file that does not parse or has
\* no boolean where the switch is.
THEOREM LandingTypes == Spec => []TypeOK
<1>1. TypeInv => TypeOK
  BY DEF TypeInv, TypeOK, RepoInv, TabsInv, FormInv, PutsInv, HasFlag, Pages
<1> QED
  BY <1>1, TypeInvAlways, PTL

----------------------------------------------------------------------------
(***************************************************************************)
(* The answers.                                                            *)
(***************************************************************************)

\* What a page shows of a file is on the branch until somebody changes it.
PageInv ==
    \A t \in Tabs, p \in Paths :
        ~moved[t][p] /\ page[t][p] \in Content => repo[p] = page[t][p]

Current(m) == m.click = clicks[m.tab]

\* A click has one request at most; while Forgejo has not handled it nobody
\* knows how it ends, and its SHA is that of the page that is still shown.
RequestInv ==
    /\ \A m \in puts : m.click <= clicks[m.tab]
    /\ \A m \in puts : Current(m) =>
        /\ reply[m.tab] = "none"
        /\ pc[m.tab] # "get"
        /\ answer[m.tab] \in {"none", "forgejo error"}
        /\ pc[m.tab] = "put" => m.path = form[m.tab][1] /\ m.sha = page[m.tab][m.path]
    /\ \A m, n \in puts : m.tab = n.tab /\ Current(m) /\ Current(n) => m = n

\* Of one tab: the reply says whether the commit was applied, a reply of
\* conflict that the file has moved, and so does an answer that went by it.
AnswerOK(t) ==
    /\ applied[t] <=> reply[t] = "ok"
    /\ pc[t] = "get" => reply[t] = "none"
    /\ pc[t] \in {"loading", "get", "put"} => answer[t] = "none"
    /\ pc[t] = "put" /\ reply[t] = "conflict" => moved[t][form[t][1]]
    /\ answer[t] = "redirect" => applied[t]
    /\ answer[t] \in {"forbidden", "yaml error", "stale view"} => ~applied[t]
    /\ answer[t] = "stale view" => moved[t][form[t][1]]

AnswerInv == \A t \in Tabs : AnswerOK(t)

\* A change of a file is seen on every page that was fetched before.
LEMMA PageStep ==
  ASSUME TypeInv, PageInv, [Next]_vars
  PROVE  PageInv'
<1>1. ASSUME NEW t \in Tabs, Load(t)
      PROVE  PageInv'
  BY <1>1, ConstantsAssumption DEF Load, NoPage, PageInv, TypeInv, TabsInv, RepoInv, Pages
<1>2. ASSUME NEW t \in Tabs, NEW p \in Paths, Fetch(t, p)
      PROVE  PageInv'
  <2>1. PICK got \in {repo[p], Failed} : page' = [page EXCEPT ![t][p] = got]
    BY <1>2 DEF Fetch
  <2>2. page'[t][p] = got /\ \A u \in Tabs, q \in Paths : u # t \/ q # p => page'[u][q] = page[u][q]
    BY <2>1 DEF TypeInv, TabsInv, Pages
  <2>3. \A u \in Tabs, q \in Paths : u # t \/ q # p => moved'[u][q] = moved[u][q]
    BY <1>2 DEF Fetch, TypeInv, RepoInv
  <2> QED
    BY <1>2, <2>2, <2>3, ConstantsAssumption DEF Fetch, PageInv
<1>3. ASSUME NEW m \in puts, Applies(m)
      PROVE  PageInv'
  <2>1. \A u \in Tabs : moved'[u][m.path] /\ \A q \in Paths \ {m.path} : moved'[u][q] = moved[u][q] /\ repo'[q] = repo[q]
    BY <1>3 DEF Applies, Write, TypeInv, RepoInv, PutsInv, Requests
  <2>2. page' = page
    BY <1>3 DEF Applies, tabs
  <2> QED
    BY <2>1, <2>2 DEF PageInv
<1>4. ASSUME NEW p \in Paths, Push(p)
      PROVE  PageInv'
  <2>1. \A u \in Tabs : moved'[u][p] /\ \A q \in Paths \ {p} : moved'[u][q] = moved[u][q] /\ repo'[q] = repo[q]
    BY <1>4 DEF Push, Write, TypeInv, RepoInv
  <2>2. page' = page
    BY <1>4 DEF Push, tabs
  <2> QED
    BY <2>1, <2>2 DEF PageInv
<1>5. CASE UNCHANGED <<page, repo, moved>>
  BY <1>5 DEF PageInv
<1> QED
  BY <1>1, <1>2, <1>3, <1>4, <1>5
  DEF Next, User, Handler, Forgejo, vars, Render, Click, Reply, GetFails,
      GetUnusable, GetThenPut, Answered, TimesOut, Aborts, Refuses, Replies,
      Revoke, tabs

\* A request is one of this click, or nobody waits for it any more.
LEMMA RequestStep ==
  ASSUME TypeInv, RequestInv, AnswerInv, [Next]_vars
  PROVE  RequestInv'
<1>0. \A m \in puts : m.tab \in Tabs
  BY DEF TypeInv, PutsInv, Requests
<1>1. ASSUME NEW t \in Tabs, Load(t)
      PROVE  RequestInv'
  <2>1. /\ UNCHANGED <<puts, clicks, form, reply>>
        /\ pc'[t] = "loading" /\ answer'[t] = "none"
        /\ \A u \in Tabs \ {t} : pc'[u] = pc[u] /\ answer'[u] = answer[u] /\ page'[u] = page[u]
    BY <1>1 DEF Load, TypeInv, TabsInv
  <2> QED
    BY <1>0, <2>1 DEF RequestInv, Current
<1>2. ASSUME NEW t \in Tabs, NEW p \in Paths, Fetch(t, p)
      PROVE  RequestInv'
  <2>1. \A u \in Tabs \ {t} : page'[u] = page[u]
    BY <1>2 DEF Fetch, TypeInv, TabsInv
  <2> QED
    BY <1>2, <2>1 DEF Fetch, RequestInv, Current, TypeInv, PutsInv, Requests
<1>3. ASSUME NEW t \in Tabs, Render(t)
      PROVE  RequestInv'
  <2>1. /\ UNCHANGED <<puts, clicks, form, page, reply, answer>>
        /\ pc'[t] = "page"
        /\ \A u \in Tabs \ {t} : pc'[u] = pc[u]
    BY <1>3 DEF Render, TypeInv, TabsInv
  <2> QED
    BY <1>0, <2>1 DEF RequestInv, Current
<1>4. ASSUME NEW t \in Tabs, NEW p \in Paths, NEW k \in Keys, Click(t, p, k)
      PROVE  RequestInv'
  <2>1. clicks'[t] = clicks[t] + 1 /\ clicks[t] \in Nat /\ puts' = puts
    BY <1>4 DEF Click, TypeInv, TabsInv
  <2>2. \A u \in Tabs \ {t} : /\ clicks'[u] = clicks[u] /\ reply'[u] = reply[u] /\ pc'[u] = pc[u]
                            /\ answer'[u] = answer[u] /\ form'[u] = form[u] /\ page'[u] = page[u]
    BY <1>4 DEF Click, Reply, TypeInv, TabsInv
  <2>3. \A m \in puts : m.tab = t => ~Current(m)' /\ m.click <= clicks'[t]
    <3>1. \A m \in puts : m.tab = t => m.click \in Nat /\ m.click <= clicks[t]
      BY DEF TypeInv, PutsInv, Requests, RequestInv
    <3> QED
      BY <2>1, <3>1 DEF Current
  <2>4. \A m \in puts : m.tab \in Tabs
    BY DEF TypeInv, PutsInv, Requests
  <2>5. \A m \in puts : Current(m)' => m.tab \in Tabs \ {t} /\ Current(m)
    BY <2>2, <2>3, <2>4 DEF Current
  <2>6. \A m \in puts : m.click <= clicks'[m.tab]
    BY <2>2, <2>3, <2>4 DEF RequestInv
  <2>7. ASSUME NEW m \in puts, Current(m)'
        PROVE  /\ reply'[m.tab] = "none"
               /\ pc'[m.tab] # "get"
               /\ answer'[m.tab] \in {"none", "forgejo error"}
               /\ pc'[m.tab] = "put" => m.path = form'[m.tab][1] /\ m.sha = page'[m.tab][m.path]
    BY <2>2, <2>5, <2>7 DEF RequestInv
  <2>8. \A m, n \in puts : m.tab = n.tab /\ Current(m)' /\ Current(n)' => m = n
    BY <2>5 DEF RequestInv
  <2> QED
    BY <2>1, <2>6, <2>7, <2>8 DEF RequestInv
<1>5. ASSUME NEW t \in Tabs, GetFails(t)
      PROVE  RequestInv'
  <2>1. /\ UNCHANGED <<puts, clicks, form, page, reply>>
        /\ pc[t] = "get" \/ answer'[t] = "forgejo error"
        /\ pc'[t] = "page"
        /\ \A u \in Tabs \ {t} : pc'[u] = pc[u] /\ answer'[u] = answer[u]
    BY <1>5 DEF GetFails, Reply, TypeInv, TabsInv
  <2> QED
    BY <1>0, <2>1 DEF RequestInv, Current
<1>6. ASSUME NEW t \in Tabs, GetUnusable(t)
      PROVE  RequestInv'
  <2>1. /\ UNCHANGED <<puts, clicks, form, page, reply>>
        /\ pc[t] = "get" \/ answer'[t] = "forgejo error"
        /\ pc'[t] = "page"
        /\ \A u \in Tabs \ {t} : pc'[u] = pc[u] /\ answer'[u] = answer[u]
    BY <1>6 DEF GetUnusable, Reply, TypeInv, TabsInv
  <2> QED
    BY <1>0, <2>1 DEF RequestInv, Current
<1>7. ASSUME NEW t \in Tabs, GetThenPut(t)
      PROVE  RequestInv'
  <2> DEFINE m == Commit(t, form[t][1], form[t][2], repo[form[t][1]], Shown(t, form[t][1]))
  <2>1. m.tab = t /\ m.click = clicks[t] /\ m.path = form[t][1] /\ m.sha = page[t][m.path]
    BY DEF Commit, Request, Shown
  <2>2. puts' = puts \union {m} /\ pc' = [pc EXCEPT ![t] = "put"] /\ pc[t] = "get"
        /\ UNCHANGED <<clicks, reply, answer, form, page>>
    BY <1>7 DEF GetThenPut
  <2> HIDE DEF m
  <2>3. \A n \in puts : ~(n.tab = t /\ Current(n))
    BY <2>2 DEF RequestInv
  <2>4. reply[t] = "none" /\ answer[t] = "none"
    BY <2>2 DEF AnswerInv, AnswerOK
  <2>5. clicks[t] \in Nat /\ pc'[t] = "put" /\ \A u \in Tabs \ {t} : pc'[u] = pc[u]
    BY <2>2 DEF TypeInv, TabsInv
  <2>6. \A n \in puts : n.tab \in Tabs
    BY DEF TypeInv, PutsInv, Requests
  <2>7. \A n \in puts : n.click <= clicks[n.tab]
    BY DEF RequestInv
  <2>8. \A n \in puts' : n.click <= clicks'[n.tab]
    BY <2>1, <2>2, <2>5, <2>7
  <2>9. \A n \in puts' : n = m \/ (n \in puts /\ (Current(n) => n.tab # t))
    BY <2>2, <2>3
  <2>10. \A n \in puts : Current(n)' = Current(n)
    BY <2>2 DEF Current
  <2>11. ASSUME NEW n \in puts', Current(n)'
         PROVE  /\ reply'[n.tab] = "none"
                /\ pc'[n.tab] # "get"
                /\ answer'[n.tab] \in {"none", "forgejo error"}
                /\ pc'[n.tab] = "put" => n.path = form'[n.tab][1] /\ n.sha = page'[n.tab][n.path]
    <3>1. CASE n = m
      BY <2>1, <2>2, <2>4, <2>5, <3>1
    <3>2. CASE n # m
      <4>1. n \in puts /\ Current(n) /\ n.tab \in Tabs \ {t}
        BY <2>6, <2>9, <2>10, <2>11, <3>2
      <4> QED
        BY <2>2, <2>5, <4>1 DEF RequestInv
    <3> QED
      BY <3>1, <3>2
  <2>12. \A n, o \in puts' : n.tab = o.tab /\ Current(n)' /\ Current(o)' => n = o
    BY <2>1, <2>9, <2>10 DEF RequestInv
  <2> QED
    BY <2>8, <2>11, <2>12 DEF RequestInv
<1>8. ASSUME NEW t \in Tabs, Answered(t)
      PROVE  RequestInv'
  <2>1. /\ UNCHANGED <<puts, clicks, form, page, reply>>
        /\ reply[t] # "none" /\ pc'[t] = "page"
        /\ \A u \in Tabs \ {t} : pc'[u] = pc[u] /\ answer'[u] = answer[u]
    BY <1>8 DEF Answered, Reply, TypeInv, TabsInv
  <2> QED
    BY <1>0, <2>1 DEF RequestInv, Current
<1>9. ASSUME NEW t \in Tabs, TimesOut(t)
      PROVE  RequestInv'
  <2>1. /\ UNCHANGED <<puts, clicks, form, page, reply>>
        /\ pc[t] = "get" \/ answer'[t] = "forgejo error"
        /\ pc'[t] = "page"
        /\ \A u \in Tabs \ {t} : pc'[u] = pc[u] /\ answer'[u] = answer[u]
    BY <1>9 DEF TimesOut, Reply, TypeInv, TabsInv
  <2> QED
    BY <1>0, <2>1 DEF RequestInv, Current
<1>10. ASSUME NEW t \in Tabs, Aborts(t)
      PROVE  RequestInv'
  <2>1. /\ UNCHANGED <<puts, clicks, form, page, reply, answer>>
        /\ pc'[t] = "page"
        /\ \A u \in Tabs \ {t} : pc'[u] = pc[u]
    BY <1>10 DEF Aborts, TypeInv, TabsInv
  <2> QED
    BY <1>0, <2>1 DEF RequestInv, Current
<1>11. ASSUME NEW m \in puts, Applies(m)
      PROVE  RequestInv'
  <2>1. puts' = puts \ {m} /\ UNCHANGED <<clicks, pc, answer, form, page>>
    BY <1>11 DEF Applies
  <2>2. \A u \in Tabs : reply'[u] # reply[u] => u = m.tab /\ Current(m)
    BY <1>11 DEF Applies, Replies, Current, TypeInv, TabsInv
  <2>3. \A n \in puts' : Current(n) => reply'[n.tab] = reply[n.tab]
    BY <2>1, <2>2 DEF RequestInv, TypeInv, PutsInv, Requests
  <2> QED
    BY <2>1, <2>3 DEF RequestInv, Current
<1>12. ASSUME NEW m \in puts, Refuses(m)
      PROVE  RequestInv'
  <2>1. puts' = puts \ {m} /\ UNCHANGED <<clicks, pc, answer, form, page>>
    BY <1>12 DEF Refuses
  <2>2. \A u \in Tabs : reply'[u] # reply[u] => u = m.tab /\ Current(m)
    BY <1>12 DEF Refuses, Replies, Current, TypeInv, TabsInv
  <2>3. \A n \in puts' : Current(n) => reply'[n.tab] = reply[n.tab]
    BY <2>1, <2>2 DEF RequestInv, TypeInv, PutsInv, Requests
  <2> QED
    BY <2>1, <2>3 DEF RequestInv, Current
<1>13. CASE UNCHANGED <<pc, page, form, answer, reply, clicks, puts>>
  BY <1>13 DEF RequestInv, Current
<1> QED
  BY <1>1, <1>2, <1>3, <1>4, <1>5, <1>6, <1>7, <1>8, <1>9, <1>10, <1>11, <1>12, <1>13
  DEF Next, User, Handler, Forgejo, vars, Push, Write, tabs, Revoke

\* Every answer goes by what the tab knows of its last click.
LEMMA AnswerStep ==
  ASSUME TypeInv, PageInv, RequestInv, AnswerInv, [Next]_vars
  PROVE  AnswerInv'
<1>1. ASSUME NEW t \in Tabs, Load(t)
      PROVE  AnswerInv'
  <2>1. /\ UNCHANGED <<reply, applied, moved, form>>
        /\ \A u \in Tabs \ {t} : pc'[u] = pc[u] /\ answer'[u] = answer[u]
    BY <1>1 DEF Load, TypeInv, TabsInv
  <2>2. AnswerOK(t)'
    BY <1>1 DEF Load, AnswerInv, AnswerOK, TypeInv, TabsInv
  <2>3. \A u \in Tabs \ {t} : AnswerOK(u)'
    BY <2>1 DEF AnswerInv, AnswerOK
  <2> QED
    BY <2>2, <2>3 DEF AnswerInv
<1>2. ASSUME NEW t \in Tabs, NEW p \in Paths, Fetch(t, p)
      PROVE  AnswerInv'
  <2>1. \A u \in Tabs \ {t} : moved'[u] = moved[u]
    BY <1>2 DEF Fetch, TypeInv, RepoInv
  <2> QED
    BY <1>2, <2>1 DEF Fetch, AnswerInv, AnswerOK
<1>3. ASSUME NEW t \in Tabs, Render(t)
      PROVE  AnswerInv'
  <2>1. /\ UNCHANGED <<reply, applied, moved, form>>
        /\ \A u \in Tabs \ {t} : pc'[u] = pc[u] /\ answer'[u] = answer[u]
    BY <1>3 DEF Render, TypeInv, TabsInv
  <2>2. AnswerOK(t)'
    BY <1>3 DEF Render, AnswerInv, AnswerOK, TypeInv, TabsInv
  <2>3. \A u \in Tabs \ {t} : AnswerOK(u)'
    BY <2>1 DEF AnswerInv, AnswerOK
  <2> QED
    BY <2>2, <2>3 DEF AnswerInv
<1>4. ASSUME NEW t \in Tabs, NEW p \in Paths, NEW k \in Keys, Click(t, p, k)
      PROVE  AnswerInv'
  <2>1. /\ UNCHANGED moved
        /\ reply'[t] = "none" /\ ~applied'[t]
        /\ \/ pc'[t] = "get" /\ answer'[t] = "none"
           \/ pc'[t] = "page" /\ answer'[t] = "forbidden"
    BY <1>4 DEF Click, Reply, TypeInv, TabsInv
  <2>2. \A u \in Tabs \ {t} : /\ pc'[u] = pc[u] /\ answer'[u] = answer[u] /\ form'[u] = form[u]
                            /\ reply'[u] = reply[u] /\ applied'[u] = applied[u]
    BY <1>4 DEF Click, Reply, TypeInv, TabsInv
  <2>3. AnswerOK(t)'
    BY <2>1 DEF AnswerOK
  <2>4. ASSUME NEW u \in Tabs \ {t}
        PROVE  AnswerOK(u)'
    <3>1. AnswerOK(u) /\ moved' = moved /\ form'[u] = form[u] /\ pc'[u] = pc[u]
          /\ answer'[u] = answer[u] /\ reply'[u] = reply[u] /\ applied'[u] = applied[u]
      BY <2>1, <2>2 DEF AnswerInv
    <3> QED
      BY <3>1 DEF AnswerOK
  <2> QED
    BY <2>3, <2>4 DEF AnswerInv
<1>5. ASSUME NEW t \in Tabs, GetFails(t)
      PROVE  AnswerInv'
  <2>1. /\ UNCHANGED <<reply, applied, moved, form>>
        /\ \A u \in Tabs \ {t} : pc'[u] = pc[u] /\ answer'[u] = answer[u]
    BY <1>5 DEF GetFails, Reply, TypeInv, TabsInv
  <2>2. AnswerOK(t)'
    BY <1>5 DEF GetFails, Reply, AnswerInv, AnswerOK, TypeInv, TabsInv
  <2>3. \A u \in Tabs \ {t} : AnswerOK(u)'
    BY <2>1 DEF AnswerInv, AnswerOK
  <2> QED
    BY <2>2, <2>3 DEF AnswerInv
<1>6. ASSUME NEW t \in Tabs, GetUnusable(t)
      PROVE  AnswerInv'
  <2>1. /\ UNCHANGED <<reply, applied, moved, form>>
        /\ \A u \in Tabs \ {t} : pc'[u] = pc[u] /\ answer'[u] = answer[u]
    BY <1>6 DEF GetUnusable, Reply, TypeInv, TabsInv
  <2>2. AnswerOK(t)'
    BY <1>6 DEF GetUnusable, Reply, AnswerInv, AnswerOK, TypeInv, TabsInv
  <2>3. \A u \in Tabs \ {t} : AnswerOK(u)'
    BY <2>1 DEF AnswerInv, AnswerOK
  <2> QED
    BY <2>2, <2>3 DEF AnswerInv
<1>7. ASSUME NEW t \in Tabs, GetThenPut(t)
      PROVE  AnswerInv'
  <2>1. /\ UNCHANGED <<reply, applied, moved, form, answer>>
        /\ pc[t] = "get" /\ pc'[t] = "put" /\ \A u \in Tabs \ {t} : pc'[u] = pc[u]
    BY <1>7 DEF GetThenPut, TypeInv, TabsInv
  <2> QED
    BY <2>1 DEF AnswerInv, AnswerOK
<1>8. ASSUME NEW t \in Tabs, Answered(t)
      PROVE  AnswerInv'
  <2>1. AnswerTo(reply[t]) = "redirect" => reply[t] = "ok"
    BY Zenon DEF AnswerTo
  <2>2. AnswerTo(reply[t]) = "stale view" => reply[t] = "conflict"
    BY Zenon DEF AnswerTo
  <2>3. AnswerTo(reply[t]) \in {"redirect", "stale view", "forgejo error"}
    BY Zenon DEF AnswerTo
  <2>4. /\ UNCHANGED <<reply, applied, moved, form>>
        /\ pc[t] = "put" /\ pc'[t] = "page" /\ answer'[t] = AnswerTo(reply[t])
        /\ \A u \in Tabs \ {t} : pc'[u] = pc[u] /\ answer'[u] = answer[u]
    BY <1>8 DEF Answered, Reply, TypeInv, TabsInv
  <2>5. AnswerOK(t)'
    BY <2>1, <2>2, <2>3, <2>4 DEF AnswerInv, AnswerOK
  <2>6. \A u \in Tabs \ {t} : AnswerOK(u)'
    BY <2>4 DEF AnswerInv, AnswerOK
  <2> QED
    BY <2>5, <2>6 DEF AnswerInv
<1>9. ASSUME NEW t \in Tabs, TimesOut(t)
      PROVE  AnswerInv'
  <2>1. /\ UNCHANGED <<reply, applied, moved, form>>
        /\ \A u \in Tabs \ {t} : pc'[u] = pc[u] /\ answer'[u] = answer[u]
    BY <1>9 DEF TimesOut, Reply, TypeInv, TabsInv
  <2>2. AnswerOK(t)'
    BY <1>9 DEF TimesOut, Reply, AnswerInv, AnswerOK, TypeInv, TabsInv
  <2>3. \A u \in Tabs \ {t} : AnswerOK(u)'
    BY <2>1 DEF AnswerInv, AnswerOK
  <2> QED
    BY <2>2, <2>3 DEF AnswerInv
<1>10. ASSUME NEW t \in Tabs, Aborts(t)
      PROVE  AnswerInv'
  <2>1. /\ UNCHANGED <<reply, applied, moved, form>>
        /\ \A u \in Tabs \ {t} : pc'[u] = pc[u] /\ answer'[u] = answer[u]
    BY <1>10 DEF Aborts, TypeInv, TabsInv
  <2>2. AnswerOK(t)'
    BY <1>10 DEF Aborts, AnswerInv, AnswerOK, TypeInv, TabsInv
  <2>3. \A u \in Tabs \ {t} : AnswerOK(u)'
    BY <2>1 DEF AnswerInv, AnswerOK
  <2> QED
    BY <2>2, <2>3 DEF AnswerInv
<1>11. ASSUME NEW m \in puts, Applies(m)
      PROVE  AnswerInv'
  <2>1. \A u \in Tabs, q \in Paths : moved[u][q] => moved'[u][q]
    BY <1>11 DEF Applies, Write, TypeInv, RepoInv
  <2>2. \A u \in Tabs : form[u][1] \in Paths
    BY DEF TypeInv, TabsInv
  <2>3. UNCHANGED <<pc, answer, form>>
    BY <1>11 DEF Applies
  <2>4. CASE Current(m)
    <3>1. m.tab \in Tabs /\ answer[m.tab] \in {"none", "forgejo error"} /\ pc[m.tab] # "get"
      BY <2>4 DEF RequestInv, TypeInv, PutsInv, Requests
    <3>2. reply'[m.tab] = "ok" /\ applied'[m.tab]
      BY <1>11, <2>4, <3>1 DEF Applies, Replies, Current, TypeInv, TabsInv
    <3>3. \A u \in Tabs \ {m.tab} : reply'[u] = reply[u] /\ applied'[u] = applied[u]
      BY <1>11, <2>4 DEF Applies, Replies, Current, TypeInv, TabsInv
    <3>4. AnswerOK(m.tab)'
      <4>1. pc'[m.tab] # "get" /\ answer'[m.tab] \in {"none", "forgejo error"}
        BY <2>3, <3>1
      <4>2. pc'[m.tab] \in {"loading", "put"} => answer'[m.tab] = "none"
        BY <2>3, <3>1 DEF AnswerInv, AnswerOK
      <4> QED
        BY <3>2, <4>1, <4>2 DEF AnswerOK
    <3>5. ASSUME NEW u \in Tabs \ {m.tab}
          PROVE  AnswerOK(u)'
      BY <2>1, <2>2, <2>3, <3>3 DEF AnswerInv, AnswerOK
    <3> QED
      BY <3>4, <3>5 DEF AnswerInv
  <2>5. CASE ~Current(m)
    <3>1. UNCHANGED <<reply, applied>>
      BY <1>11, <2>5 DEF Applies, Replies, Current
    <3> QED
      BY <2>1, <2>2, <2>3, <3>1 DEF AnswerInv, AnswerOK
  <2> QED
    BY <2>4, <2>5
<1>12. ASSUME NEW m \in puts, Refuses(m)
      PROVE  AnswerInv'
  <2>1. UNCHANGED <<pc, answer, form, moved, applied>>
    BY <1>12 DEF Refuses
  <2>2. CASE Current(m)
    <3>1. /\ m.tab \in Tabs /\ reply[m.tab] = "none" /\ pc[m.tab] # "get"
          /\ pc[m.tab] = "put" => m.path = form[m.tab][1] /\ m.sha = page[m.tab][m.path]
          /\ m.path \in Paths /\ m.sha \in Content
      BY <2>2 DEF RequestInv, TypeInv, PutsInv, Requests
    <3>2. /\ reply'[m.tab] # "ok"
          /\ reply'[m.tab] = "conflict" => repo[m.path] # m.sha
          /\ \A u \in Tabs \ {m.tab} : reply'[u] = reply[u]
      BY <1>12, <2>2, <3>1 DEF Refuses, Replies, Current, TypeInv, TabsInv
    <3>3. pc[m.tab] = "put" /\ reply'[m.tab] = "conflict" => moved[m.tab][form[m.tab][1]]
      BY <3>1, <3>2 DEF PageInv, TypeInv, RepoInv
    <3>4. AnswerOK(m.tab)'
      BY <2>1, <3>1, <3>2, <3>3 DEF AnswerInv, AnswerOK
    <3>5. ASSUME NEW u \in Tabs \ {m.tab}
          PROVE  AnswerOK(u)'
      BY <2>1, <3>2 DEF AnswerInv, AnswerOK
    <3> QED
      BY <3>4, <3>5 DEF AnswerInv
  <2>3. CASE ~Current(m)
    <3>1. UNCHANGED reply
      BY <1>12, <2>3 DEF Refuses, Replies, Current
    <3> QED
      BY <2>1, <3>1 DEF AnswerInv, AnswerOK
  <2> QED
    BY <2>2, <2>3
<1>13. ASSUME NEW p \in Paths, Push(p)
      PROVE  AnswerInv'
  <2>1. \A u \in Tabs, q \in Paths : moved[u][q] => moved'[u][q]
    BY <1>13 DEF Push, Write, TypeInv, RepoInv
  <2>2. \A u \in Tabs : form[u][1] \in Paths
    BY DEF TypeInv, TabsInv
  <2> QED
    BY <1>13, <2>1, <2>2 DEF Push, tabs, AnswerInv, AnswerOK
<1>14. CASE UNCHANGED <<pc, form, answer, reply, applied, moved>>
  BY <1>14 DEF AnswerInv, AnswerOK
<1> QED
  BY <1>1, <1>2, <1>3, <1>4, <1>5, <1>6, <1>7, <1>8, <1>9, <1>10, <1>11, <1>12, <1>13, <1>14
  DEF Next, User, Handler, Forgejo, vars, Revoke, tabs

\* The answers are true, however clicks, reloads, aborted requests, pushes and
\* late requests interleave: a redirect means that the click's commit is on the
\* branch, every other definite answer that it is not, and "stale view" that
\* the file has changed since the page was fetched.
THEOREM AnswersAreTrue == Spec => []TrueAnswers
<1>1. ASSUME Init
      PROVE  PageInv /\ RequestInv /\ AnswerInv
  <2>1. PageInv
    BY <1>1, ConstantsAssumption DEF Init, NoPage, PageInv
  <2>2. RequestInv /\ AnswerInv
    BY <1>1 DEF Init, RequestInv, AnswerInv, AnswerOK
  <2> QED
    BY <2>1, <2>2
<1>2. TypeInv /\ PageInv /\ RequestInv /\ AnswerInv /\ [Next]_vars
        => (PageInv /\ RequestInv /\ AnswerInv)'
  BY PageStep, RequestStep, AnswerStep
<1>3. AnswerInv => TrueAnswers
  BY DEF AnswerInv, AnswerOK, TrueAnswers
<1> QED
  BY <1>1, <1>2, <1>3, TypeInvAlways, PTL DEF Spec
=============================================================================
