------------------------------ MODULE Accounts ------------------------------
(***************************************************************************)
(* Sign-up and login.  An account lives in two places: Firebase Auth knows *)
(* its password, the UserData collection holds its profile.  Signing up is *)
(* three remote steps (is there a profile, create the account, post the    *)
(* profile), logging in is two (sign in, get the profile), and each answer *)
(* may be an error, come after the effect was lost sight of, or not come   *)
(* because the process has died.                                           *)
(*                                                                         *)
(* Of Firestore this needs little: a posted profile is in memory, then on  *)
(* disk, then at the backend, and a document that is read is the device's  *)
(* own pending one or the backend's.                                       *)
(***************************************************************************)
EXTENDS Naturals

CONSTANTS
    Devices,    \* the installations of the app
    Emails,     \* the names of the accounts
    Passwords,  \* the passwords
    None        \* no account, no user, nothing saved

Role     == {"technician", "pilot"}
UserData == [email : Emails, password : Passwords, role : Role]
Credentials == [email : Emails, password : Passwords]

ASSUME AccountAssumption == None \notin UserData \cup Credentials \cup Passwords

VARIABLES
    accounts,       \* Firebase Auth: the password of each account
    profiles,       \* the UserData collection at the backend
    memory,         \* per device: profiles posted, on the SDK's worker queue
    disk,           \* per device: profiles in the SDK's mutation queue
    interrupted,    \* emails whose sign-up a crash, a lost answer or a refusal cut
    phone           \* per device: the app

sdkVars == <<profiles, memory, disk>>
vars    == <<accounts, profiles, memory, disk, interrupted, phone>>

\* input is what the handler under way works on, userData the app's global,
\* saved the credentials in UserDefaults.
Phone == [screen   : {"login", "signup", "home"},
          step     : {"none", "check", "create", "created", "notCreated",
                      "signIn", "profile", "silent"},
          loading  : BOOLEAN,
          alert    : {"none", "basic", "returning"},
          input    : UserData \cup Credentials \cup {None},
          userData : UserData \cup {None},
          saved    : Credentials \cup {None}]

Launched(saved) == [screen |-> "login", step |-> "none", loading |-> FALSE,
                    alert |-> "none", input |-> None, userData |-> None,
                    saved |-> saved]

TypeOK ==
    /\ accounts \in [Emails -> Passwords \cup {None}]
    /\ profiles \subseteq UserData
    /\ memory \in [Devices -> SUBSET UserData]
    /\ disk \in [Devices -> SUBSET UserData]
    /\ interrupted \subseteq Emails
    /\ phone \in [Devices -> Phone]
    \* a profile has one document, on the backend and in each queue
    /\ \A S \in {profiles} \cup {memory[d] \cup disk[d] : d \in Devices} :
        \A u, v \in S : u.email = v.email => u = v
    /\ \A d \in Devices :
        /\ phone[d].loading <=> phone[d].step # "none"
        /\ phone[d].loading <=> phone[d].input # None
        /\ phone[d].screen = "home" <=> phone[d].userData # None

Init ==
    /\ accounts = [e \in Emails |-> None]
    /\ profiles = {}
    /\ memory = [d \in Devices |-> {}]
    /\ disk = [d \in Devices |-> {}]
    /\ interrupted = {}
    /\ phone = [d \in Devices |-> Launched(None)]

----------------------------------------------------------------------------
\* The loading view covers the screen and an alert is modal.
Tappable(d, screen) ==
    phone[d].screen = screen /\ ~phone[d].loading /\ phone[d].alert = "none"

Step(d, step) == phone' = [phone EXCEPT ![d].step = step]

Start(d, step, input) ==
    phone' = [phone EXCEPT ![d].step = step, ![d].input = input, ![d].loading = TRUE]

\* The loading view goes and an alert comes.
Finish(d, alert) ==
    phone' = [phone EXCEPT ![d].step = "none", ![d].input = None,
                           ![d].loading = FALSE, ![d].alert = alert]

Show(d, screen) ==
    /\ phone' = [phone EXCEPT ![d].screen = screen, ![d].alert = "none"]
    /\ UNCHANGED <<accounts, sdkVars, interrupted>>

\* What getDocument finds: the SDK has run the device's earlier posts by then.
Found(d, email) ==
    LET own == {u \in disk[d] : u.email = email}
    IN  IF own # {} THEN own ELSE {u \in profiles : u.email = email}

----------------------------------------------------------------------------
\* SIGN-UP

GoToSignup(d)     == Tappable(d, "login") /\ Show(d, "signup")
onCancelSignup(d) == Tappable(d, "signup") /\ Show(d, "login")

\* getUserDataFromInput throws, on either screen: an empty field, two passwords
\* that differ, no role chosen.
RejectInput(d) ==
    /\ Tappable(d, "signup") \/ Tappable(d, "login")
    /\ phone' = [phone EXCEPT ![d].alert = "basic"]
    /\ UNCHANGED <<accounts, sdkVars, interrupted>>

onSubmitSignup(d, u) ==
    /\ Tappable(d, "signup")
    /\ Start(d, "check", u)
    /\ UNCHANGED <<accounts, sdkVars, interrupted>>

\* checkUserExists: any error counts as "does not exist".
CheckAnswers(d) ==
    /\ phone[d].step = "check"
    /\ memory[d] = {}
    /\ \/ Found(d, phone[d].input.email) # {} /\ Finish(d, "basic")
       \/ Step(d, "create")
    /\ UNCHANGED <<accounts, sdkVars, interrupted>>

\* Mutant of CreateAccount: an account that exists is taken over.
CreateAccountAnyway(d) ==
    LET u == phone[d].input
    IN  /\ phone[d].step = "create"
        /\ accounts' = [accounts EXCEPT ![u.email] = u.password]
        /\ Step(d, "created")
        /\ UNCHANGED <<sdkVars, interrupted>>

\* Firebase Auth handles createUser; it refuses an email it knows, a password it
\* finds weak, and a request it does not get.
CreateAccount(d) ==
    LET u == phone[d].input
    IN  /\ phone[d].step = "create"
        /\ \/ /\ accounts[u.email] = None
              /\ accounts' = [accounts EXCEPT ![u.email] = u.password]
              /\ Step(d, "created")
           \/ Step(d, "notCreated") /\ UNCHANGED accounts
        /\ UNCHANGED <<sdkVars, interrupted>>

\* Mutant of CreateAnswers: the profile is posted whatever the outcome.
CreateAnswersPosting(d) ==
    /\ phone[d].step \in {"created", "notCreated"}
    /\ memory' = [memory EXCEPT ![d] = @ \cup {phone[d].input}]
    /\ Finish(d, IF phone[d].step = "created" THEN "returning" ELSE "basic")
    /\ UNCHANGED <<accounts, profiles, disk, interrupted>>

\* Mutant of CreateAnswers: success is reported and no profile posted.
CreateAnswersForgetting(d) ==
    /\ phone[d].step \in {"created", "notCreated"}
    /\ Finish(d, IF phone[d].step = "created" THEN "returning" ELSE "basic")
    /\ UNCHANGED <<accounts, sdkVars, interrupted>>

\* Mutant of CreateAnswers: the loading view stays when the account is not created.
CreateAnswersLoading(d) ==
    /\ phone[d].step \in {"created", "notCreated"}
    /\ \/ /\ phone[d].step = "created"
          /\ memory' = [memory EXCEPT ![d] = @ \cup {phone[d].input}]
          /\ Finish(d, "returning")
          /\ UNCHANGED interrupted
       \/ /\ phone' = [phone EXCEPT ![d].alert = "basic"]
          /\ UNCHANGED <<memory, interrupted>>
    /\ UNCHANGED <<accounts, profiles, disk>>

\* The completion of createUser.  An answer lost on the way is an error, although
\* the account has been created.
CreateAnswers(d) ==
    LET u == phone[d].input
    IN  /\ phone[d].step \in {"created", "notCreated"}
        /\ \/ /\ phone[d].step = "created"
              /\ memory' = [memory EXCEPT ![d] = @ \cup {u}]
              /\ Finish(d, "returning")
              /\ UNCHANGED interrupted
           \/ /\ Finish(d, "basic")
              /\ interrupted' = IF phone[d].step = "created"
                                THEN interrupted \cup {u.email} ELSE interrupted
              /\ UNCHANGED memory
        /\ UNCHANGED <<accounts, profiles, disk>>

\* OK: the returning alert pops the sign-up screen.
DismissAlert(d) ==
    /\ phone[d].alert # "none"
    /\ Show(d, IF phone[d].alert = "returning" THEN "login" ELSE phone[d].screen)

----------------------------------------------------------------------------
\* LOGIN

onLogin(d, c) ==
    /\ Tappable(d, "login")
    /\ Start(d, "signIn", c)
    /\ UNCHANGED <<accounts, sdkVars, interrupted>>

\* Mutant of SignInAnswers: the credentials are saved whatever the outcome.
SignInAnswersSaving(d) ==
    /\ phone[d].step = "signIn"
    /\ phone' = [phone EXCEPT ![d].step = "profile", ![d].saved = phone[d].input]
    /\ UNCHANGED <<accounts, sdkVars, interrupted>>

\* The completion of signIn: an error, or the credentials are saved and the
\* profile is asked for.
SignInAnswers(d) ==
    LET c == phone[d].input
    IN  /\ phone[d].step = "signIn"
        /\ \/ Finish(d, "basic")
           \/ /\ accounts[c.email] = c.password
              /\ phone' = [phone EXCEPT ![d].step = "profile", ![d].saved = c]
        /\ UNCHANGED <<accounts, sdkVars, interrupted>>

\* The completion of getUserData; where the profile is missing or cannot be read
\* it is not called, and the loading view stays.
ProfileAnswers(d) ==
    /\ phone[d].step = "profile"
    /\ memory[d] = {}
    /\ \/ \E u \in Found(d, phone[d].input.email) :
            phone' = [phone EXCEPT ![d].step = "none", ![d].input = None,
                        ![d].loading = FALSE, ![d].screen = "home",
                        ![d].userData = u]
       \/ Step(d, "silent")
    /\ UNCHANGED <<accounts, sdkVars, interrupted>>

----------------------------------------------------------------------------
\* THE SDK AND THE PROCESS

WriteLocally(d) == \E u \in memory[d] :
    /\ memory' = [memory EXCEPT ![d] = @ \ {u}]
    /\ disk' = [disk EXCEPT ![d] = @ \cup {u}]
    /\ UNCHANGED <<accounts, profiles, interrupted, phone>>

Commit(d) == \E u \in disk[d] :
    /\ disk' = [disk EXCEPT ![d] = @ \ {u}]
    /\ profiles' = {v \in profiles : v.email # u.email} \cup {u}
    /\ UNCHANGED <<accounts, memory, interrupted, phone>>

Refuse(d) == \E u \in disk[d] :
    /\ disk' = [disk EXCEPT ![d] = @ \ {u}]
    /\ interrupted' = interrupted \cup {u.email}
    /\ UNCHANGED <<accounts, profiles, memory, phone>>

\* The process dies.  A createUser under way may take effect all the same.
Crash(d) ==
    LET u == phone[d].input
        cut == {v.email : v \in memory[d]}
    IN  /\ phone' = [phone EXCEPT ![d] = Launched(@.saved)]
        /\ memory' = [memory EXCEPT ![d] = {}]
        /\ \/ /\ interrupted' = interrupted \cup cut \cup
                    (IF phone[d].step = "created" THEN {u.email} ELSE {})
              /\ UNCHANGED accounts
           \/ /\ phone[d].step = "create"
              /\ accounts[u.email] = None
              /\ accounts' = [accounts EXCEPT ![u.email] = u.password]
              /\ interrupted' = interrupted \cup cut \cup {u.email}
        /\ UNCHANGED <<profiles, disk>>

Next == \E d \in Devices :
    \/ GoToSignup(d)
    \/ onCancelSignup(d)
    \/ RejectInput(d)
    \/ \E u \in UserData : onSubmitSignup(d, u)
    \/ \E c \in Credentials : onLogin(d, c)
    \/ CheckAnswers(d)
    \/ CreateAccount(d)
    \/ CreateAnswers(d)
    \/ DismissAlert(d)
    \/ SignInAnswers(d)
    \/ ProfileAnswers(d)
    \/ WriteLocally(d)
    \/ Commit(d)
    \/ Refuse(d)
    \/ Crash(d)

Spec == Init /\ [][Next]_vars

\* Requests are answered and the worker queue runs.
Fairness == \A d \in Devices :
    /\ WF_vars(WriteLocally(d))
    /\ WF_vars(CheckAnswers(d) \/ CreateAccount(d) \/ CreateAnswers(d)
                \/ SignInAnswers(d) \/ ProfileAnswers(d))

FairSpec == Spec /\ Fairness

----------------------------------------------------------------------------
\* PROPERTIES

Profiles == profiles \cup UNION {memory[d] \cup disk[d] : d \in Devices}

\* Two sign-ups for one email may race to the end, on two devices and with two
\* passwords: every profile, at the backend or on its way there, is the winner's.
ProfilesMatchAccounts == \A u \in Profiles : accounts[u.email] = u.password

\* An account without a profile can neither log in nor sign up again.  None is
\* left behind but by a sign-up still under way, or one that was cut: by a crash, a
\* lost answer or a refusal.
LockedOutOnlyIfInterrupted == \A e \in Emails : accounts[e] # None =>
    \/ e \in interrupted
    \/ \E u \in Profiles : u.email = e
    \/ \E d \in Devices : phone[d].step = "created" /\ phone[d].input.email = e

\* Whoever is past the login screen is there with the password of the account and
\* under its profile -- or one that the device had posted itself and the backend
\* has refused since.  What the login screen fills in is valid for good.
LoggedInAsOneself == \A d \in Devices :
    LET user == phone[d].userData
        saved == phone[d].saved
    IN  /\ user # None => /\ saved # None
                          /\ user.email = saved.email
                          /\ user.password = saved.password
                          /\ user \in Found(d, user.email) \/ user.email \in interrupted
        /\ saved # None => accounts[saved.email] = saved.password

\* The loading view goes in the end, except where login's getUserData has fallen
\* silent.
LoadingEnds == \A d \in Devices :
    phone[d].loading ~> (~phone[d].loading \/ phone[d].step = "silent")
============================================================================
