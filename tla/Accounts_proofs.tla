--------------------------- MODULE Accounts_proofs ---------------------------
(***************************************************************************)
(* Proofs about Accounts, for any number of devices, emails and passwords: *)
(*   - every profile carries the password of its account,                  *)
(*   - nobody is locked out but by an interruption,                        *)
(*   - whoever is logged in is there as oneself.                           *)
(***************************************************************************)
EXTENDS Accounts, TLAPS

----------------------------------------------------------------------------
\* THE INDUCTIVE INVARIANT

\* What holds of a phone by itself: the loading view shows while a handler is
\* under way, with an input of the kind that handler works on.
PhoneOK(p) ==
    /\ p \in Phone
    /\ p.loading <=> p.step # "none"
    /\ p.loading <=> p.input # None
    /\ p.screen = "home" <=> p.userData # None
    /\ p.step # "none" => p.screen # "home" /\ p.alert = "none"
    /\ p.alert # "none" => p.screen # "home"
    /\ p.step \in {"check", "create", "created", "notCreated"} => p.input \in UserData
    /\ p.step \in {"signIn", "profile", "silent"} => p.input \in Credentials
    /\ p.step \in {"profile", "silent"} => p.saved = p.input

PhonesOK == phone \in [Devices -> Phone] /\ \A d \in Devices : PhoneOK(phone[d])

StoresOK ==
    /\ accounts \in [Emails -> Passwords \cup {None}]
    /\ profiles \subseteq UserData
    /\ memory \in [Devices -> SUBSET UserData]
    /\ disk \in [Devices -> SUBSET UserData]
    /\ interrupted \subseteq Emails

\* The sign-ups between the creation of the account and its answer: each of them
\* owns the account, and nobody has posted the profile yet.
Owner(d) == phone[d].step = "created"

OwnersOK == \A d \in Devices : Owner(d) =>
    LET u == phone[d].input
    IN  /\ accounts[u.email] = u.password
        /\ \A v \in Profiles : v.email # u.email
        /\ \A e \in Devices \ {d} : Owner(e) => phone[e].input.email # u.email

\* An email has one profile, wherever its copies are.
OneProfile == \A u, v \in Profiles : u.email = v.email => u = v

Inv == PhonesOK /\ StoresOK /\ OwnersOK /\ OneProfile /\ ProfilesMatchAccounts

----------------------------------------------------------------------------
\* THE PHONES

\* One phone changes at a time.
LEMMA OnePhone ==
    ASSUME PhonesOK, NEW d \in Devices, NEW p, PhoneOK(p),
           phone' = [phone EXCEPT ![d] = p]
    PROVE  PhonesOK'
<1>1. p \in Phone
  BY DEF PhoneOK
<1>2. phone' \in [Devices -> Phone]
  BY <1>1 DEF PhonesOK
<1>3. \A e \in Devices : phone'[e] = IF e = d THEN p ELSE phone[e]
  BY DEF PhonesOK
<1>4. \A e \in Devices : PhoneOK(phone'[e])
  BY <1>3 DEF PhonesOK
<1> QED BY <1>2, <1>4 DEF PhonesOK, PhoneOK

\* When a handler ends, its phone is in order.
LEMMA FinishOK ==
    ASSUME PhonesOK, NEW d \in Devices, NEW a \in {"none", "basic", "returning"},
           Finish(d, a), phone[d].step # "none"
    PROVE  \E q : PhoneOK(q) /\ q.step = "none" /\ phone' = [phone EXCEPT ![d] = q]
<1> DEFINE p == phone[d]
           q == [p EXCEPT !.step = "none", !.input = None, !.loading = FALSE,
                          !.alert = a]
<1>1. PhoneOK(p) /\ p \in Phone /\ phone \in [Devices -> Phone]
  BY DEF PhonesOK, PhoneOK
<1>2. phone' = [phone EXCEPT ![d] = q]
  BY <1>1 DEF Finish
<1>3. PhoneOK(q) /\ q.step = "none"
  BY <1>1 DEF PhoneOK, Phone
<1> QED BY <1>2, <1>3

\* The steps of the app that touch nothing but a phone, and create no account.
Screens(d) ==
    \/ GoToSignup(d)
    \/ onCancelSignup(d)
    \/ RejectInput(d)
    \/ \E u \in UserData : onSubmitSignup(d, u)
    \/ \E c \in Credentials : onLogin(d, c)
    \/ CheckAnswers(d)
    \/ DismissAlert(d)
    \/ SignInAnswers(d)
    \/ ProfileAnswers(d)

\* Every step of a screen leaves a phone in order, owning what it owned.
LEMMA ScreensStep ==
    ASSUME PhonesOK, StoresOK, NEW d \in Devices, Screens(d)
    PROVE  /\ UNCHANGED <<accounts, sdkVars, interrupted>>
           /\ PhonesOK'
           /\ \A e \in Devices : Owner(e)' <=> Owner(e)
           /\ \A e \in Devices : Owner(e) => phone'[e].input = phone[e].input
<1> DEFINE p == phone[d]
<1>1. PhoneOK(p) /\ p \in Phone /\ phone \in [Devices -> Phone]
  BY DEF PhonesOK, PhoneOK
<1>2. UNCHANGED <<accounts, sdkVars, interrupted>>
  BY DEF Screens, GoToSignup, onCancelSignup, RejectInput, onSubmitSignup, onLogin,
         CheckAnswers, DismissAlert, SignInAnswers, ProfileAnswers, Show
<1> DEFINE Becomes(q) == /\ PhoneOK(q)
                         /\ phone' = [phone EXCEPT ![d] = q]
                         /\ q.step = "created" <=> p.step = "created"
                         /\ p.step = "created" => q.input = p.input
<1>3. SUFFICES \E q : Becomes(q)
  <2>1. PICK q : Becomes(q)
    BY <1>3
  <2>2. PhonesOK'
    BY <2>1, OnePhone
  <2>3. \A e \in Devices : phone'[e] = IF e = d THEN q ELSE phone[e]
    BY <1>1, <2>1
  <2> QED BY <1>2, <2>1, <2>2, <2>3 DEF Owner
<1>4. ASSUME NEW s \in {"login", "signup", "home"}, Show(d, s),
             s = "home" <=> p.userData # None
      PROVE  \E q : Becomes(q)
  <2> DEFINE q == [p EXCEPT !.screen = s, !.alert = "none"]
  <2>1. phone' = [phone EXCEPT ![d] = q]
    BY <1>1, <1>4 DEF Show
  <2>2. PhoneOK(q) /\ q.step = p.step /\ q.input = p.input
    BY <1>1, <1>4 DEF PhoneOK, Phone
  <2> QED BY <2>1, <2>2
<1>5. ASSUME NEW s \in {"check", "signIn"}, NEW i \in UserData \cup Credentials,
             Start(d, s, i), p.step = "none", p.screen # "home", p.alert = "none",
             s = "check" => i \in UserData, s = "signIn" => i \in Credentials
      PROVE  \E q : Becomes(q)
  <2> DEFINE q == [p EXCEPT !.step = s, !.input = i, !.loading = TRUE]
  <2>1. phone' = [phone EXCEPT ![d] = q]
    BY <1>1, <1>5 DEF Start
  <2>2. i # None
    BY <1>5, AccountAssumption
  <2>3. PhoneOK(q) /\ q.step # "created"
    BY <1>1, <1>5, <2>2 DEF PhoneOK, Phone
  <2> QED BY <1>5, <2>1, <2>3
<1>6. ASSUME NEW a \in {"none", "basic", "returning"}, Finish(d, a),
             p.step \notin {"none", "created"}
      PROVE  \E q : Becomes(q)
  BY <1>6, FinishOK
<1>7. CASE GoToSignup(d) \/ onCancelSignup(d)
  <2>1. p.userData = None
    BY <1>1, <1>7 DEF GoToSignup, onCancelSignup, Tappable, PhoneOK
  <2> QED BY <1>4, <1>7, <2>1 DEF GoToSignup, onCancelSignup
<1>8. CASE RejectInput(d)
  <2> DEFINE q == [p EXCEPT !.alert = "basic"]
  <2>1. phone' = [phone EXCEPT ![d] = q]
    BY <1>1, <1>8 DEF RejectInput
  <2>2. p.screen # "home" /\ p.step = "none"
    BY <1>1, <1>8 DEF RejectInput, Tappable, PhoneOK
  <2>3. PhoneOK(q) /\ q.step = p.step /\ q.input = p.input
    BY <1>1, <2>2 DEF PhoneOK, Phone
  <2> QED BY <2>1, <2>3
<1>9. CASE \E u \in UserData : onSubmitSignup(d, u)
  <2>1. PICK u \in UserData : onSubmitSignup(d, u)
    BY <1>9
  <2>2. p.step = "none" /\ p.screen # "home" /\ p.alert = "none"
    BY <1>1, <2>1 DEF onSubmitSignup, Tappable, PhoneOK
  <2> QED BY <1>5, <2>1, <2>2 DEF onSubmitSignup
<1>10. CASE \E c \in Credentials : onLogin(d, c)
  <2>1. PICK c \in Credentials : onLogin(d, c)
    BY <1>10
  <2>2. p.step = "none" /\ p.screen # "home" /\ p.alert = "none"
    BY <1>1, <2>1 DEF onLogin, Tappable, PhoneOK
  <2> QED BY <1>5, <2>1, <2>2 DEF onLogin
<1>11. CASE CheckAnswers(d)
  <2>1. p.step = "check"
    BY <1>11 DEF CheckAnswers
  <2>2. CASE Finish(d, "basic")
    BY <1>6, <2>1, <2>2
  <2>3. CASE Step(d, "create")
    <3> DEFINE q == [p EXCEPT !.step = "create"]
    <3>1. phone' = [phone EXCEPT ![d] = q]
      BY <1>1, <2>3 DEF Step
    <3>2. PhoneOK(q) /\ q.step # "created"
      BY <1>1, <2>1 DEF PhoneOK, Phone
    <3> QED BY <2>1, <3>1, <3>2
  <2> QED BY <1>11, <2>2, <2>3 DEF CheckAnswers
<1>12. CASE DismissAlert(d)
  <2> DEFINE s == IF p.alert = "returning" THEN "login" ELSE p.screen
  <2>1. s \in {"login", "signup", "home"} /\ (s = "home" <=> p.userData # None)
    BY <1>1, <1>12 DEF DismissAlert, PhoneOK, Phone
  <2> QED BY <1>4, <1>12, <2>1 DEF DismissAlert
<1>13. CASE SignInAnswers(d)
  <2>1. p.step = "signIn" /\ p.input \in Credentials
    BY <1>1, <1>13 DEF SignInAnswers, PhoneOK
  <2>2. CASE Finish(d, "basic")
    BY <1>6, <2>1, <2>2
  <2>3. CASE phone' = [phone EXCEPT ![d].step = "profile", ![d].saved = p.input]
    <3> DEFINE q == [p EXCEPT !.step = "profile", !.saved = p.input]
    <3>1. phone' = [phone EXCEPT ![d] = q]
      BY <1>1, <2>3
    <3>2. PhoneOK(q) /\ q.step # "created"
      BY <1>1, <2>1 DEF PhoneOK, Phone
    <3> QED BY <2>1, <3>1, <3>2
  <2> QED BY <1>13, <2>2, <2>3 DEF SignInAnswers
<1>14. CASE ProfileAnswers(d)
  <2>1. p.step = "profile"
    BY <1>14 DEF ProfileAnswers
  <2>2. CASE Step(d, "silent")
    <3> DEFINE q == [p EXCEPT !.step = "silent"]
    <3>1. phone' = [phone EXCEPT ![d] = q]
      BY <1>1, <2>2 DEF Step
    <3>2. PhoneOK(q) /\ q.step # "created"
      BY <1>1, <2>1 DEF PhoneOK, Phone
    <3> QED BY <2>1, <3>1, <3>2
  <2>3. ASSUME NEW u \in Found(d, p.input.email),
               phone' = [phone EXCEPT ![d].step = "none", ![d].input = None,
                            ![d].loading = FALSE, ![d].screen = "home",
                            ![d].userData = u]
        PROVE  \E q : Becomes(q)
    <3> DEFINE q == [p EXCEPT !.step = "none", !.input = None, !.loading = FALSE,
                              !.screen = "home", !.userData = u]
    <3>1. phone' = [phone EXCEPT ![d] = q]
      BY <1>1, <2>3
    <3>2. u \in UserData /\ u # None
      BY AccountAssumption DEF Found, StoresOK
    <3>3. PhoneOK(q) /\ q.step # "created"
      BY <1>1, <2>1, <3>2 DEF PhoneOK, Phone
    <3> QED BY <2>1, <3>1, <3>3
  <2> QED BY <1>14, <2>2, <2>3 DEF ProfileAnswers
<1> QED BY <1>7, <1>8, <1>9, <1>10, <1>11, <1>12, <1>13, <1>14 DEF Screens

----------------------------------------------------------------------------
\* THE INVARIANT IS INDUCTIVE

\* Accounts are only ever added: a step that adds no profile and no owner keeps
\* what relates them.
LEMMA FewerProfiles ==
    ASSUME Inv, PhonesOK', StoresOK',
           \A e \in Emails : accounts[e] # None => accounts'[e] = accounts[e],
           Profiles' \subseteq Profiles,
           \A d \in Devices : Owner(d)' =>
                Owner(d) /\ phone'[d].input = phone[d].input
    PROVE  Inv'
<1>1. \A u \in UserData : u.email \in Emails /\ u.password # None
  BY AccountAssumption DEF UserData
<1>2. Profiles \subseteq UserData
  BY DEF Inv, StoresOK, Profiles
<1>3. \A d \in Devices : Owner(d) => phone[d].input \in UserData
  BY DEF Inv, PhonesOK, PhoneOK, Owner
<1>4. ProfilesMatchAccounts'
  BY <1>1, <1>2 DEF Inv, ProfilesMatchAccounts
<1>5. OneProfile'
  BY DEF Inv, OneProfile
<1>6. OwnersOK'
  <2> SUFFICES ASSUME NEW d \in Devices, Owner(d)'
               PROVE  /\ accounts'[phone'[d].input.email] = phone'[d].input.password
                      /\ \A v \in Profiles' : v.email # phone'[d].input.email
                      /\ \A e \in Devices \ {d} : Owner(e)' =>
                            phone'[e].input.email # phone'[d].input.email
    BY DEF OwnersOK
  <2>1. Owner(d) /\ phone'[d].input = phone[d].input
    OBVIOUS
  <2>2. /\ accounts[phone[d].input.email] = phone[d].input.password
        /\ \A v \in Profiles : v.email # phone[d].input.email
        /\ \A e \in Devices \ {d} : Owner(e) =>
                phone[e].input.email # phone[d].input.email
    BY <2>1 DEF Inv, OwnersOK
  <2>3. accounts'[phone[d].input.email] = phone[d].input.password
    BY <1>1, <1>3, <2>1, <2>2
  <2>4. \A e \in Devices \ {d} : Owner(e)' =>
            phone'[e].input.email # phone'[d].input.email
    BY <2>1, <2>2
  <2> QED BY <2>1, <2>2, <2>3, <2>4
<1> QED BY <1>4, <1>5, <1>6 DEF Inv

\* What the user does on the screens keeps the invariant.
LEMMA ScreensKeepInv ==
    ASSUME Inv, NEW d \in Devices, Screens(d)
    PROVE  Inv'
<1>1. PhonesOK /\ StoresOK
  BY DEF Inv
<1>2. /\ UNCHANGED <<accounts, sdkVars, interrupted>>
      /\ PhonesOK'
      /\ \A e \in Devices : Owner(e)' <=> Owner(e)
      /\ \A e \in Devices : Owner(e) => phone'[e].input = phone[e].input
  BY <1>1, ScreensStep
<1>3. StoresOK'
  BY <1>1, <1>2 DEF StoresOK, sdkVars
<1>4. Profiles' = Profiles
  BY <1>2 DEF Profiles, sdkVars
<1> QED BY <1>2, <1>3, <1>4, FewerProfiles

\* Auth creates an account for one sign-up only.
LEMMA CreateAccountKeepsInv ==
    ASSUME Inv, NEW d \in Devices, CreateAccount(d)
    PROVE  Inv'
<1> DEFINE p == phone[d]
           u == p.input
<1>1. PhoneOK(p) /\ p \in Phone /\ phone \in [Devices -> Phone]
  BY DEF Inv, PhonesOK, PhoneOK
<1>2. p.step = "create" /\ u \in UserData /\ UNCHANGED <<sdkVars, interrupted>>
  BY <1>1 DEF CreateAccount, PhoneOK
<1>3. u.email \in Emails /\ u.password \in Passwords /\ u.password # None
  BY <1>2, AccountAssumption DEF UserData
<1>4. ASSUME NEW s \in {"created", "notCreated"}, Step(d, s)
      PROVE  /\ PhonesOK'
             /\ phone'[d].step = s /\ phone'[d].input = u
             /\ \A e \in Devices \ {d} : phone'[e] = phone[e]
  <2> DEFINE q == [p EXCEPT !.step = s]
  <2>1. phone' = [phone EXCEPT ![d] = q]
    BY <1>1, <1>4 DEF Step
  <2>2. PhoneOK(q) /\ q.step = s /\ q.input = u
    BY <1>1, <1>2, <1>4 DEF PhoneOK, Phone
  <2>3. PhonesOK'
    BY <2>1, <2>2, OnePhone DEF Inv
  <2> QED BY <1>1, <2>1, <2>2, <2>3
<1>5. Profiles' = Profiles
  BY <1>2 DEF Profiles, sdkVars
<1>6. CASE Step(d, "notCreated") /\ UNCHANGED accounts
  <2>1. StoresOK'
    BY <1>2, <1>6 DEF Inv, StoresOK, sdkVars
  <2>2. \A e \in Devices : Owner(e)' => Owner(e) /\ phone'[e].input = phone[e].input
    BY <1>4, <1>6 DEF Owner
  <2> QED BY <1>4, <1>5, <1>6, <2>1, <2>2, FewerProfiles
<1>7. CASE /\ accounts[u.email] = None
           /\ accounts' = [accounts EXCEPT ![u.email] = u.password]
           /\ Step(d, "created")
  <2>1. StoresOK' /\ \A e \in Emails :
            accounts'[e] = IF e = u.email THEN u.password ELSE accounts[e]
    BY <1>2, <1>3, <1>7 DEF Inv, StoresOK, sdkVars
  <2>2. Profiles \subseteq UserData
    BY DEF Inv, StoresOK, Profiles
  <2>3. \A v \in UserData : v.email \in Emails /\ v.password # None
    BY AccountAssumption DEF UserData
  \* Neither a profile nor another owner has the email: its account is new.
  <2>4. \A v \in Profiles : v.email # u.email
    BY <1>7, <2>2, <2>3 DEF Inv, ProfilesMatchAccounts
  <2>5. \A e \in Devices \ {d} : Owner(e) =>
            /\ phone[e].input \in UserData
            /\ phone[e].input.email # u.email
    <3> SUFFICES ASSUME NEW e \in Devices \ {d}, Owner(e)
                 PROVE  /\ phone[e].input \in UserData
                        /\ phone[e].input.email # u.email
      OBVIOUS
    <3>1. phone[e].input \in UserData
      BY DEF Inv, PhonesOK, PhoneOK, Owner
    <3>2. accounts[phone[e].input.email] = phone[e].input.password
      BY DEF Inv, OwnersOK
    <3> QED BY <1>7, <2>3, <3>1, <3>2
  <2>6. ProfilesMatchAccounts'
    BY <1>5, <2>1, <2>2, <2>3, <2>4 DEF Inv, ProfilesMatchAccounts
  <2>7. OneProfile'
    BY <1>5 DEF Inv, OneProfile
  <2>8. ASSUME NEW e \in Devices, Owner(e)'
        PROVE  /\ accounts'[phone'[e].input.email] = phone'[e].input.password
               /\ \A v \in Profiles' : v.email # phone'[e].input.email
               /\ \A f \in Devices \ {e} : Owner(f)' =>
                     phone'[f].input.email # phone'[e].input.email
    <3>1. CASE e = d
      <4>1. \A f \in Devices \ {e} : Owner(f)' =>
                Owner(f) /\ phone'[f].input = phone[f].input
        BY <1>4, <1>7, <3>1 DEF Owner
      <4> QED BY <1>3, <1>4, <1>5, <1>7, <2>1, <2>4, <2>5, <3>1, <4>1
    <3>2. CASE e # d
      <4>1. phone'[e] = phone[e] /\ Owner(e)
        BY <1>4, <1>7, <2>8, <3>2 DEF Owner
      <4>2. /\ accounts[phone[e].input.email] = phone[e].input.password
            /\ \A v \in Profiles : v.email # phone[e].input.email
            /\ \A f \in Devices \ {e} : Owner(f) =>
                  phone[f].input.email # phone[e].input.email
        BY <4>1 DEF Inv, OwnersOK
      <4>3. phone[e].input.email \in Emails /\ phone[e].input.email # u.email
        BY <2>3, <2>5, <3>2, <4>1
      <4>4. \A f \in Devices \ {e} : Owner(f)' =>
                phone'[f].input.email # phone'[e].input.email
        <5> SUFFICES ASSUME NEW f \in Devices \ {e}, Owner(f)'
                     PROVE  phone'[f].input.email # phone'[e].input.email
          OBVIOUS
        <5>1. CASE f = d
          BY <1>4, <1>7, <4>1, <4>3, <5>1
        <5>2. CASE f # d
          <6>1. phone'[f] = phone[f] /\ Owner(f)
            BY <1>4, <1>7, <5>2 DEF Owner
          <6> QED BY <4>1, <4>2, <6>1
        <5> QED BY <5>1, <5>2
      <4> QED BY <1>5, <2>1, <4>1, <4>2, <4>3, <4>4
    <3> QED BY <3>1, <3>2
  <2>9. OwnersOK'
    BY <2>8 DEF OwnersOK
  <2> QED BY <1>4, <1>7, <2>1, <2>6, <2>7, <2>9 DEF Inv
<1> QED BY <1>6, <1>7 DEF CreateAccount

\* The owner of an account posts its profile and owns it no more.
LEMMA CreateAnswersKeepsInv ==
    ASSUME Inv, NEW d \in Devices, CreateAnswers(d)
    PROVE  Inv'
<1> DEFINE p == phone[d]
           u == p.input
<1>1. PhoneOK(p) /\ phone \in [Devices -> Phone] /\ p.step # "none"
  BY DEF Inv, PhonesOK, CreateAnswers
<1>2. u \in UserData /\ UNCHANGED <<accounts, profiles, disk>>
  BY <1>1 DEF CreateAnswers, PhoneOK
<1>3. u.email \in Emails
  BY <1>2 DEF UserData
<1>4. ASSUME NEW a \in {"basic", "returning"}, Finish(d, a)
      PROVE  PhonesOK' /\ \A e \in Devices : Owner(e)' =>
                e # d /\ Owner(e) /\ phone'[e].input = phone[e].input
  <2>1. PICK q : PhoneOK(q) /\ q.step = "none" /\ phone' = [phone EXCEPT ![d] = q]
    BY <1>1, <1>4, FinishOK DEF Inv
  <2>2. PhonesOK'
    BY <2>1, OnePhone DEF Inv
  <2>3. \A e \in Devices : phone'[e] = IF e = d THEN q ELSE phone[e]
    BY <1>1, <2>1
  <2> QED BY <2>1, <2>2, <2>3 DEF Owner
<1>5. CASE /\ p.step = "created"
           /\ memory' = [memory EXCEPT ![d] = @ \cup {u}]
           /\ Finish(d, "returning")
           /\ UNCHANGED interrupted
  <2>1. StoresOK'
    BY <1>2, <1>5 DEF Inv, StoresOK
  <2>2. Profiles' = Profiles \cup {u}
    BY <1>2, <1>5 DEF Inv, StoresOK, Profiles
  <2>3. /\ accounts[u.email] = u.password
        /\ \A v \in Profiles : v.email # u.email
        /\ \A e \in Devices \ {d} : Owner(e) => phone[e].input.email # u.email
    BY <1>5 DEF Inv, OwnersOK, Owner
  <2>4. ProfilesMatchAccounts'
    BY <1>2, <2>2, <2>3 DEF Inv, ProfilesMatchAccounts
  <2>5. OneProfile'
    BY <2>2, <2>3 DEF Inv, OneProfile
  <2>6. ASSUME NEW e \in Devices, Owner(e)'
        PROVE  /\ accounts'[phone'[e].input.email] = phone'[e].input.password
               /\ \A v \in Profiles' : v.email # phone'[e].input.email
               /\ \A f \in Devices \ {e} : Owner(f)' =>
                     phone'[f].input.email # phone'[e].input.email
    <3>1. e # d /\ Owner(e) /\ phone'[e].input = phone[e].input
      BY <1>4, <1>5, <2>6
    <3>2. /\ accounts[phone[e].input.email] = phone[e].input.password
          /\ \A v \in Profiles : v.email # phone[e].input.email
          /\ \A f \in Devices \ {e} : Owner(f) =>
                phone[f].input.email # phone[e].input.email
      BY <3>1 DEF Inv, OwnersOK
    <3>3. \A f \in Devices \ {e} : Owner(f)' =>
            Owner(f) /\ phone'[f].input = phone[f].input
      BY <1>4, <1>5
    <3> QED BY <1>2, <2>2, <2>3, <3>1, <3>2, <3>3
  <2>7. OwnersOK'
    BY <2>6 DEF OwnersOK
  <2> QED BY <1>4, <1>5, <2>1, <2>4, <2>5, <2>7 DEF Inv
<1>6. CASE /\ Finish(d, "basic")
           /\ interrupted' = IF p.step = "created"
                             THEN interrupted \cup {u.email} ELSE interrupted
           /\ UNCHANGED memory
  <2>1. StoresOK' /\ Profiles' = Profiles
    BY <1>2, <1>3, <1>6 DEF Inv, StoresOK, Profiles
  <2>2. PhonesOK' /\ \A e \in Devices : Owner(e)' =>
            Owner(e) /\ phone'[e].input = phone[e].input
    BY <1>4, <1>6
  <2> QED BY <1>2, <2>1, <2>2, FewerProfiles
<1> QED BY <1>5, <1>6 DEF CreateAnswers

\* A profile on its way, one that is refused and one that replaces itself.
SDK(d) == WriteLocally(d) \/ Commit(d) \/ Refuse(d)

\* The SDK's steps keep the invariant.
LEMMA SDKKeepsInv ==
    ASSUME Inv, NEW d \in Devices, SDK(d)
    PROVE  Inv'
<1>1. UNCHANGED <<accounts, phone>>
  BY DEF SDK, WriteLocally, Commit, Refuse
<1>2. PhonesOK' /\ \A e \in Devices : Owner(e)' =>
            Owner(e) /\ phone'[e].input = phone[e].input
  BY <1>1 DEF Inv, PhonesOK, PhoneOK, Owner
<1>3. StoresOK' /\ Profiles' \subseteq Profiles
  <2>1. CASE WriteLocally(d)
    BY <2>1 DEF WriteLocally, Inv, StoresOK, Profiles
  <2>2. CASE Commit(d)
    BY <2>2 DEF Commit, Inv, StoresOK, Profiles
  <2>3. CASE Refuse(d)
    <3>1. \A u \in UserData : u.email \in Emails
      BY DEF UserData
    <3> QED BY <2>3, <3>1 DEF Refuse, Inv, StoresOK, Profiles
  <2> QED BY <2>1, <2>2, <2>3 DEF SDK
<1> QED BY <1>1, <1>2, <1>3, FewerProfiles

\* The death of the process keeps the invariant.
LEMMA CrashKeepsInv ==
    ASSUME Inv, NEW d \in Devices, Crash(d)
    PROVE  Inv'
<1> DEFINE p == phone[d]
           q == Launched(p.saved)
<1>1. PhoneOK(p) /\ p \in Phone /\ phone \in [Devices -> Phone]
  BY DEF Inv, PhonesOK, PhoneOK
<1>2. phone' = [phone EXCEPT ![d] = q] /\ q.step = "none"
  BY <1>1 DEF Crash, Launched
<1>3. PhoneOK(q)
  BY <1>1 DEF PhoneOK, Phone, Launched
<1>4. PhonesOK'
  BY <1>2, <1>3, OnePhone DEF Inv
<1>5. \A e \in Devices : Owner(e)' => Owner(e) /\ phone'[e].input = phone[e].input
  <2>1. \A e \in Devices : phone'[e] = IF e = d THEN q ELSE phone[e]
    BY <1>1, <1>2
  <2> QED BY <1>2, <2>1 DEF Owner
<1>6. Profiles' \subseteq Profiles
  BY DEF Crash, Inv, StoresOK, Profiles
<1>7. \A u \in UserData : u.email \in Emails /\ u.password \in Passwords
  BY DEF UserData
<1>8. p.step \in {"create", "created"} => p.input \in UserData
  BY <1>1 DEF PhoneOK
<1>9. /\ interrupted' \subseteq Emails
      /\ accounts' \in [Emails -> Passwords \cup {None}]
      /\ \A e \in Emails : accounts[e] # None => accounts'[e] = accounts[e]
  BY <1>7, <1>8 DEF Crash, Inv, StoresOK
<1>10. StoresOK'
  BY <1>9 DEF Crash, Inv, StoresOK
<1> QED BY <1>4, <1>5, <1>6, <1>9, <1>10, FewerProfiles

LEMMA InitInv == Init => Inv
<1> SUFFICES ASSUME Init PROVE Inv
  OBVIOUS
<1>1. PhoneOK(Launched(None))
  BY AccountAssumption DEF PhoneOK, Phone, Launched
<1>2. \A d \in Devices : phone[d] = Launched(None) /\ phone[d].step = "none"
  BY DEF Init, Launched
<1>3. PhonesOK /\ OwnersOK
  BY <1>1, <1>2 DEF Init, PhonesOK, PhoneOK, OwnersOK, Owner
<1>4. StoresOK /\ Profiles = {}
  BY DEF Init, StoresOK, Profiles
<1> QED BY <1>3, <1>4 DEF Inv, OneProfile, ProfilesMatchAccounts

LEMMA StepInv == Inv /\ [Next]_vars => Inv'
<1> SUFFICES ASSUME Inv, [Next]_vars PROVE Inv'
  OBVIOUS
<1>1. CASE UNCHANGED vars
  BY <1>1 DEF vars, sdkVars, Inv, PhonesOK, PhoneOK, StoresOK, OwnersOK, Owner,
              OneProfile, ProfilesMatchAccounts, Profiles
<1>2. CASE Next
  <2>1. PICK d \in Devices : Screens(d) \/ CreateAccount(d) \/ CreateAnswers(d)
                                \/ SDK(d) \/ Crash(d)
    BY <1>2 DEF Next, Screens, SDK
  <2> QED BY <2>1, ScreensKeepInv, CreateAccountKeepsInv, CreateAnswersKeepsInv,
             SDKKeepsInv, CrashKeepsInv
<1> QED BY <1>1, <1>2
LEMMA InvAlways == Spec => []Inv
  BY InitInv, StepInv, PTL DEF Spec

----------------------------------------------------------------------------
\* TYPE CORRECTNESS AND RACING SIGN-UPS

\* Every reachable state is well typed.  The part that is not typing: the loading
\* view shows exactly while a handler works on an input, and a profile has one
\* document on the backend and in the queues of a device.
THEOREM TypeCorrect == Spec => []TypeOK
<1>1. Inv => TypeOK
  <2> SUFFICES ASSUME Inv PROVE TypeOK
    OBVIOUS
  <2>1. \A S \in {profiles} \cup {memory[d] \cup disk[d] : d \in Devices} :
            S \subseteq Profiles
    BY DEF Profiles
  <2>2. \A S \in {profiles} \cup {memory[d] \cup disk[d] : d \in Devices} :
            \A u, v \in S : u.email = v.email => u = v
    BY <2>1 DEF Inv, OneProfile
  <2> QED BY <2>2 DEF Inv, StoresOK, PhonesOK, PhoneOK, TypeOK
<1> QED BY <1>1, InvAlways, PTL

\* However sign-ups for one email race (SignupViewController.swift:73-96), only the
\* creator of the account posts a profile.
THEOREM ProfilesBelongToAccounts == Spec => []ProfilesMatchAccounts
<1>1. Inv => ProfilesMatchAccounts
  BY DEF Inv
<1> QED BY <1>1, InvAlways, PTL

----------------------------------------------------------------------------
\* WHO IS LOCKED OUT

\* The account of an email keeps one of the three excuses, or gains one.
LEMMA LockedOutStep ==
    ASSUME Inv, LockedOutOnlyIfInterrupted, [Next]_vars
    PROVE  LockedOutOnlyIfInterrupted'
<1> DEFINE Excused(e) == \/ e \in interrupted
                         \/ \E u \in Profiles : u.email = e
                         \/ \E d \in Devices : Owner(d) /\ phone[d].input.email = e
<1>1. \A e \in Emails : accounts[e] # None => Excused(e)
  BY DEF LockedOutOnlyIfInterrupted, Owner
<1>2. SUFFICES ASSUME NEW e \in Emails, accounts'[e] # None PROVE Excused(e)'
  BY DEF LockedOutOnlyIfInterrupted, Owner
<1>3. CASE UNCHANGED vars
  BY <1>1, <1>2, <1>3 DEF vars, sdkVars, Owner, Profiles
<1>4. ASSUME NEW d \in Devices, Screens(d)
      PROVE  Excused(e)'
  <2>1. /\ UNCHANGED <<accounts, sdkVars, interrupted>>
        /\ \A x \in Devices : Owner(x)' <=> Owner(x)
        /\ \A x \in Devices : Owner(x) => phone'[x].input = phone[x].input
    BY <1>4, ScreensStep DEF Inv
  <2> QED BY <1>1, <1>2, <2>1 DEF sdkVars, Profiles
<1>5. ASSUME NEW d \in Devices, CreateAccount(d)
      PROVE  Excused(e)'
  <2> DEFINE u == phone[d].input
  <2>1. phone \in [Devices -> Phone] /\ u \in UserData /\ u.email \in Emails
    BY <1>5 DEF Inv, PhonesOK, PhoneOK, CreateAccount, UserData
  <2>2. ASSUME NEW x \in Devices, Owner(x)
        PROVE  phone'[x] = phone[x]
    BY <1>5, <2>1, <2>2 DEF CreateAccount, Step, Owner
  <2>3. UNCHANGED <<sdkVars, interrupted>>
    BY <1>5 DEF CreateAccount
  <2>4. CASE accounts'[e] = accounts[e]
    BY <1>1, <1>2, <2>2, <2>3, <2>4 DEF sdkVars, Profiles, Owner
  <2>5. CASE accounts'[e] # accounts[e]
    <3>1. Step(d, "created") /\ e = u.email
      BY <1>5, <2>1, <2>5 DEF CreateAccount, Inv, StoresOK
    <3>2. phone'[d].step = "created" /\ phone'[d].input = u
      BY <2>1, <3>1 DEF Step, Phone
    <3> QED BY <3>1, <3>2 DEF Owner
  <2> QED BY <2>4, <2>5
<1>6. ASSUME NEW d \in Devices, CreateAnswers(d)
      PROVE  Excused(e)'
  <2>1. phone \in [Devices -> Phone] /\ phone[d].step # "none"
    BY <1>6 DEF Inv, PhonesOK, CreateAnswers
  <2>2. \A x \in Devices \ {d} : phone'[x] = phone[x]
    BY <1>6, <2>1 DEF CreateAnswers, Finish
  <2>3. accounts' = accounts /\ interrupted \subseteq interrupted'
        /\ Profiles \subseteq Profiles'
    BY <1>6 DEF CreateAnswers, Inv, StoresOK, Profiles
  <2>4. CASE Owner(d) /\ phone[d].input.email = e
    BY <1>6, <2>4 DEF CreateAnswers, Owner, Profiles, Inv, StoresOK
  <2>5. CASE ~(Owner(d) /\ phone[d].input.email = e)
    BY <1>1, <1>2, <2>2, <2>3, <2>5 DEF Owner
  <2> QED BY <2>4, <2>5
<1>7. ASSUME NEW d \in Devices, SDK(d)
      PROVE  Excused(e)'
  <2>1. UNCHANGED <<accounts, phone>> /\ interrupted \subseteq interrupted'
    BY <1>7 DEF SDK, WriteLocally, Commit, Refuse
  <2>2. ASSUME NEW u \in Profiles
        PROVE  u.email \in interrupted' \/ \E v \in Profiles' : v.email = u.email
    <3>1. CASE WriteLocally(d)
      BY <2>2, <3>1 DEF WriteLocally, Profiles, Inv, StoresOK
    <3>2. CASE Commit(d)
      BY <2>2, <3>2 DEF Commit, Profiles, Inv, StoresOK
    <3>3. CASE Refuse(d)
      BY <2>2, <3>3 DEF Refuse, Profiles, Inv, StoresOK
    <3> QED BY <1>7, <3>1, <3>2, <3>3 DEF SDK
  <2> QED BY <1>1, <1>2, <2>1, <2>2 DEF Owner
<1>8. ASSUME NEW d \in Devices, Crash(d)
      PROVE  Excused(e)'
  <2> DEFINE u == phone[d].input
  <2>1. phone \in [Devices -> Phone]
        /\ (phone[d].step = "create" => u \in UserData /\ u.email \in Emails)
    BY DEF Inv, PhonesOK, PhoneOK, UserData
  <2>2. \A x \in Devices \ {d} : phone'[x] = phone[x]
    BY <1>8, <2>1 DEF Crash
  <2>3. /\ interrupted \subseteq interrupted'
        /\ \A v \in memory[d] : v.email \in interrupted'
        /\ Owner(d) => u.email \in interrupted'
    BY <1>8 DEF Crash, Owner
  <2>4. ASSUME NEW v \in Profiles
        PROVE  v.email \in interrupted' \/ v \in Profiles'
    BY <1>8, <2>3, <2>4 DEF Crash, Profiles, Inv, StoresOK
  <2>5. CASE accounts'[e] = accounts[e]
    BY <1>1, <1>2, <2>2, <2>3, <2>4, <2>5 DEF Owner
  <2>6. CASE accounts'[e] # accounts[e]
    BY <1>8, <2>1, <2>6 DEF Crash, Inv, StoresOK
  <2> QED BY <2>5, <2>6
<1>9. CASE Next
  <2>1. PICK d \in Devices : Screens(d) \/ CreateAccount(d) \/ CreateAnswers(d)
                                \/ SDK(d) \/ Crash(d)
    BY <1>9 DEF Next, Screens, SDK
  <2> QED BY <2>1, <1>4, <1>5, <1>6, <1>7, <1>8
<1> QED BY <1>3, <1>9

\* Only an interruption leaves an account without a profile
\* (SignupViewController.swift:86-96): where nothing is cut, sign-up is as good as
\* atomic.
THEOREM NobodyLockedOut == Spec => []LockedOutOnlyIfInterrupted
<1>1. Init => LockedOutOnlyIfInterrupted
  BY DEF Init, LockedOutOnlyIfInterrupted
<1>2. Inv /\ LockedOutOnlyIfInterrupted /\ [Next]_vars => LockedOutOnlyIfInterrupted'
  BY LockedOutStep
<1> QED BY <1>1, <1>2, InvAlways, PTL DEF Spec
----------------------------------------------------------------------------
\* WHO IS LOGGED IN

\* LoggedInAsOneself for one phone.
AsOneself(d) ==
    LET user == phone[d].userData
        saved == phone[d].saved
    IN  /\ user # None => /\ saved # None
                          /\ user.email = saved.email
                          /\ user.password = saved.password
                          /\ user \in Found(d, user.email) \/ user.email \in interrupted
        /\ saved # None => accounts[saved.email] = saved.password

\* A phone that keeps its user and its credentials keeps them valid, as long as the
\* copies of a profile move and do not vanish.
LEMMA StaysOneself ==
    ASSUME Inv, Inv', NEW d \in Devices, AsOneself(d),
           phone'[d].userData \in {phone[d].userData, None},
           phone'[d].saved = phone[d].saved,
           interrupted \subseteq interrupted',
           \A e \in Emails : accounts[e] # None => accounts'[e] = accounts[e],
           \A u \in disk[d] \cup profiles :
                u \in disk'[d] \cup profiles' \/ u.email \in interrupted'
    PROVE  AsOneself(d)'
<1> DEFINE user == phone[d].userData
           saved == phone[d].saved
<1>1. phone[d] \in Phone /\ phone'[d] \in Phone
  BY DEF Inv, PhonesOK
<1>2. saved \in Credentials \cup {None} /\ user \in UserData \cup {None}
  BY <1>1 DEF Phone
<1>3. saved # None => accounts'[saved.email] = saved.password
  <2> SUFFICES ASSUME saved # None PROVE accounts'[saved.email] = saved.password
    OBVIOUS
  <2>1. saved.email \in Emails /\ saved.password # None
    BY <1>2, AccountAssumption DEF Credentials
  <2> QED BY <2>1 DEF AsOneself
<1>4. ASSUME NEW u \in UserData, u = user, phone'[d].userData = u,
             u.email \notin interrupted'
      PROVE  u \in Found(d, u.email)'
  <2>1. u # None
    BY AccountAssumption
  <2>2. u \in Found(d, u.email)
    BY <1>4, <2>1 DEF AsOneself
  <2>3. u \in disk'[d] \cup profiles'
    BY <1>4, <2>2 DEF Found
  <2>4. \A v \in disk'[d] \cup profiles' : v \in Profiles'
    BY DEF Profiles
  <2>5. OneProfile'
    BY DEF Inv
  <2> QED BY <2>3, <2>4, <2>5 DEF Found, OneProfile
<1>5. CASE phone'[d].userData = None
  BY <1>3, <1>5 DEF AsOneself
<1>6. CASE phone'[d].userData = user /\ user \in UserData
  <2>1. PICK u \in UserData : u = user
    BY <1>6
  <2>2. u \in Found(d, u.email)' \/ u.email \in interrupted'
    BY <1>4, <1>6, <2>1
  <2> QED BY <1>3, <1>6, <2>1, <2>2 DEF AsOneself
<1> QED BY <1>2, <1>5, <1>6

\* A step logs nobody in as somebody else.
LEMMA LoggedInStep ==
    ASSUME Inv, Inv', LoggedInAsOneself, [Next]_vars
    PROVE  LoggedInAsOneself'
<1>1. \A e \in Devices : AsOneself(e)
  BY DEF LoggedInAsOneself, AsOneself
<1>2. SUFFICES ASSUME NEW e \in Devices PROVE AsOneself(e)'
  BY DEF LoggedInAsOneself, AsOneself
<1>3. phone \in [Devices -> Phone] /\ \A x \in Devices : PhoneOK(phone[x])
  BY DEF Inv, PhonesOK
<1>4. CASE UNCHANGED vars
  BY <1>1, <1>4, StaysOneself DEF vars, sdkVars
<1>5. ASSUME NEW d \in Devices, Screens(d)
      PROVE  AsOneself(e)'
  <2>1. UNCHANGED <<accounts, sdkVars, interrupted>>
    BY <1>5, ScreensStep DEF Inv
  <2>2. CASE /\ phone'[e].userData = phone[e].userData
             /\ phone'[e].saved = phone[e].saved
    BY <1>1, <2>1, <2>2, StaysOneself DEF sdkVars
  <2>3. CASE ~SignInAnswers(d) /\ ~ProfileAnswers(d)
    <3>1. /\ phone'[e].userData = phone[e].userData
          /\ phone'[e].saved = phone[e].saved
      <4>1. phone[d] \in Phone /\ phone[e] \in Phone
        BY <1>3
      <4>2. CASE GoToSignup(d) \/ onCancelSignup(d) \/ DismissAlert(d)
        BY <1>3, <4>1, <4>2 DEF GoToSignup, onCancelSignup, DismissAlert, Show, Phone
      <4>3. CASE RejectInput(d)
        BY <1>3, <4>1, <4>3 DEF RejectInput, Phone
      <4>4. CASE \/ \E u \in UserData : onSubmitSignup(d, u)
                 \/ \E c \in Credentials : onLogin(d, c)
        <5>1. PICK s \in {"check", "signIn"}, i \in UserData \cup Credentials :
                    Start(d, s, i)
          BY <4>4 DEF onSubmitSignup, onLogin
        <5> QED BY <1>3, <4>1, <5>1 DEF Start, Phone
      <4>5. CASE CheckAnswers(d)
        BY <1>3, <4>1, <4>5 DEF CheckAnswers, Finish, Step, Phone
      <4> QED BY <1>5, <2>3, <4>2, <4>3, <4>4, <4>5 DEF Screens
    <3> QED BY <2>2, <3>1
  <2>4. CASE e # d
    <3>1. phone'[e] = phone[e]
      BY <1>3, <1>5, <2>4 DEF Screens, GoToSignup, onCancelSignup, RejectInput,
            onSubmitSignup, onLogin, CheckAnswers, DismissAlert, SignInAnswers,
            ProfileAnswers, Show, Start, Finish, Step
    <3> QED BY <2>2, <3>1
  <2>5. CASE SignInAnswers(d) /\ e = d
    <3> DEFINE c == phone[d].input
    <3>1. phone[d].step = "signIn" /\ c \in Credentials /\ phone[d].userData = None
      BY <1>3, <2>5 DEF SignInAnswers, PhoneOK
    <3>2. CASE Finish(d, "basic")
      BY <1>3, <2>2, <2>5, <3>2 DEF Finish, Phone
    <3>3. CASE /\ accounts[c.email] = c.password
               /\ phone' = [phone EXCEPT ![d].step = "profile", ![d].saved = c]
      <4>1. phone'[d].userData = None /\ phone'[d].saved = c
        BY <1>3, <3>1, <3>3 DEF Phone
      <4> QED BY <2>1, <2>5, <3>3, <4>1 DEF AsOneself
    <3> QED BY <2>5, <3>2, <3>3 DEF SignInAnswers
  <2>6. CASE ProfileAnswers(d) /\ e = d
    <3> DEFINE c == phone[d].input
    <3>1. phone[d].step = "profile" /\ c \in Credentials /\ phone[d].saved = c
      BY <1>3, <2>6 DEF ProfileAnswers, PhoneOK
    <3>2. CASE Step(d, "silent")
      BY <1>3, <2>2, <2>6, <3>2 DEF Step, Phone
    <3>3. ASSUME NEW u \in Found(d, c.email),
                 phone' = [phone EXCEPT ![d].step = "none", ![d].input = None,
                              ![d].loading = FALSE, ![d].screen = "home",
                              ![d].userData = u]
          PROVE  AsOneself(d)'
      <4>1. phone'[d].userData = u /\ phone'[d].saved = c
        BY <1>3, <3>1, <3>3 DEF Phone
      <4>2. u \in Profiles /\ u.email = c.email
        BY DEF Found, Profiles
      <4>3. accounts[c.email] = c.password
        BY <1>1, <3>1, AccountAssumption DEF AsOneself
      <4>4. u.password = c.password
        BY <4>2, <4>3 DEF Inv, ProfilesMatchAccounts
      <4>5. Found(d, u.email)' = Found(d, u.email)
        BY <2>1 DEF Found, sdkVars
      <4>6. c # None
        BY <3>1, AccountAssumption
      <4> QED BY <2>1, <4>1, <4>2, <4>3, <4>4, <4>5, <4>6 DEF AsOneself
    <3> QED BY <2>6, <3>2, <3>3 DEF ProfileAnswers
  <2> QED BY <2>3, <2>4, <2>5, <2>6
<1>6. ASSUME NEW d \in Devices, CreateAccount(d) \/ CreateAnswers(d)
      PROVE  AsOneself(e)'
  <2>1. phone'[e].userData = phone[e].userData /\ phone'[e].saved = phone[e].saved
    BY <1>3, <1>6 DEF CreateAccount, CreateAnswers, Step, Finish, Phone
  <2>2. \A x \in Emails : accounts[x] # None => accounts'[x] = accounts[x]
    BY <1>6 DEF CreateAccount, CreateAnswers, Inv, StoresOK
  <2>3. interrupted \subseteq interrupted' /\ UNCHANGED <<profiles, disk>>
    BY <1>6 DEF CreateAccount, CreateAnswers, sdkVars
  <2> QED BY <1>1, <2>1, <2>2, <2>3, StaysOneself
<1>7. ASSUME NEW d \in Devices, SDK(d)
      PROVE  AsOneself(e)'
  <2>1. UNCHANGED <<accounts, phone>> /\ interrupted \subseteq interrupted'
    BY <1>7 DEF SDK, WriteLocally, Commit, Refuse
  <2>2. \A u \in disk[e] \cup profiles :
            u \in disk'[e] \cup profiles' \/ u.email \in interrupted'
    <3>1. disk[e] \cup profiles \subseteq Profiles /\ disk[d] \subseteq Profiles
      BY DEF Profiles
    <3>2. CASE WriteLocally(d)
      BY <3>2 DEF WriteLocally, Inv, StoresOK
    <3>3. CASE Commit(d)
      BY <3>1, <3>3 DEF Commit, Inv, StoresOK, OneProfile
    <3>4. CASE Refuse(d)
      BY <3>4 DEF Refuse, Inv, StoresOK
    <3> QED BY <1>7, <3>2, <3>3, <3>4 DEF SDK
  <2> QED BY <1>1, <2>1, <2>2, StaysOneself
<1>8. ASSUME NEW d \in Devices, Crash(d)
      PROVE  AsOneself(e)'
  <2>1. /\ phone'[e].userData \in {phone[e].userData, None}
        /\ phone'[e].saved = phone[e].saved
    BY <1>3, <1>8 DEF Crash, Launched
  <2>2. \A x \in Emails : accounts[x] # None => accounts'[x] = accounts[x]
    BY <1>8 DEF Crash, Inv, StoresOK
  <2>3. interrupted \subseteq interrupted' /\ UNCHANGED <<profiles, disk>>
    BY <1>8 DEF Crash
  <2> QED BY <1>1, <2>1, <2>2, <2>3, StaysOneself
<1>9. CASE Next
  <2>1. PICK d \in Devices : Screens(d) \/ CreateAccount(d) \/ CreateAnswers(d)
                                \/ SDK(d) \/ Crash(d)
    BY <1>9 DEF Next, Screens, SDK
  <2> QED BY <2>1, <1>5, <1>6, <1>7, <1>8
<1> QED BY <1>4, <1>9

\* The credentials the login screen fills in are valid for good, and the user at
\* home is theirs (LoginViewController.swift:34-60): a profile that a device read
\* from its own queue can be refused, and cannot be another's.
THEOREM LoggedInIsOneself == Spec => []LoggedInAsOneself
<1>1. Init => LoggedInAsOneself
  <2> SUFFICES ASSUME Init PROVE LoggedInAsOneself
    OBVIOUS
  <2>1. \A d \in Devices : phone[d].userData = None /\ phone[d].saved = None
    BY DEF Init, Launched
  <2> QED BY <2>1 DEF LoggedInAsOneself
<1>2. Inv /\ Inv' /\ LoggedInAsOneself /\ [Next]_vars => LoggedInAsOneself'
  BY LoggedInStep
<1> QED BY <1>1, <1>2, InvAlways, PTL DEF Spec

==============================================================================
