----------------------------- MODULE Licensing ------------------------------
(***************************************************************************)
(* The licensing contracts (Licensing/AppInstall.daml, License.daml): a    *)
(* user asks for an installation, the provider accepts and issues numbered *)
(* licenses through it, and a license is renewed against a fee that is     *)
(* paid through the token standard.  There is one provider.                *)
(*                                                                         *)
(* As in LoanLedger one action is one committed choice and a contract      *)
(* keeps its entry, with the choice that archived it.  The handlers of     *)
(* LicenseApiImpl, AppInstallsApiImpl, AppInstallRequestsApiImpl and       *)
(* LicenseRenewalRequestsApiImpl look the contract up and submit the       *)
(* choice for the provider.  Allocations are external.                     *)
(***************************************************************************)
EXTENDS Integers, FiniteSets, Functions

CONSTANTS
  Users,
  Fees, Extensions,      \* what a renewal may cost and how long it may last
  Windows,               \* <<prepareUntil, settleBefore>> pairs the provider may send
  Funds,                 \* token holding each user starts with
  MaxTime,               \* bound on the ledger time
  Wishes, Installs, Licenses, Renewals,  \* bounds: the contract ids of each template
  NoContract

ASSUME LicensingAssumption ==
  /\ Fees \subseteq Nat /\ Extensions \subseteq Nat
  /\ Windows \subseteq Nat \X Nat
  /\ Funds \in Nat /\ MaxTime \in Nat
  /\ \A ids \in {Wishes, Installs, Licenses, Renewals} : ids \subseteq Nat

VARIABLES
  now,         \* ledger time
  wish,        \* AppInstallRequest
  install,     \* AppInstall
  license,     \* License
  renewal,     \* LicenseRenewalRequest
  allocated,   \* renewal requests with an open Allocation
  wallet,      \* unlocked holdings of each user
  income,      \* the provider's holdings
  overlapped   \* whether a user ever had two AppInstalls at a time (history)

vars == <<now, wish, install, license, renewal, allocated, wallet, income, overlapped>>

installVars == <<wish, install, overlapped>>
feeVars     == <<allocated, wallet, income>>

-----------------------------------------------------------------------------
WishContract == [user : Users, state : {"open", "accepted", "rejected"}]

\* root: the contract the installation, or the license, started with (history).
InstallContract == [user : Users, numLicensesCreated : Nat, root : Installs,
                    state : {"open", "replaced", "cancelled"}]

LicenseContract == [user : Users, licenseNum : Nat \ {0}, expiresAt : Nat, issuedAt : Nat,
                    install : Installs, root : Licenses,
                    state : {"open", "renewed", "expired"}]

RenewalContract == [user : Users, licenseNum : Nat, fee : Fees, extension : Extensions,
                    prepareUntil : Nat, settleBefore : Nat,
                    asked : Licenses,                 \* the license it was made from (history)
                    renews : Licenses \cup {0},       \* the license it renewed (history)
                    state : {"open", "completed", "dropped"}]

ASSUME NoLicensingContractAssumption ==
  NoContract \notin WishContract \cup InstallContract \cup LicenseContract \cup RenewalContract

Created(contracts) == {c \in DOMAIN contracts : contracts[c] # NoContract}

IsOpen(contracts, c) == c \in Created(contracts) /\ contracts[c].state = "open"

Fresh(contracts) ==
  {c \in DOMAIN contracts : /\ contracts[c] = NoContract
                            /\ \A d \in DOMAIN contracts : d < c => contracts[d] # NoContract}

Archive(contracts, c, how) == [contracts EXCEPT ![c].state = how]

TypeOK ==
  /\ now \in 0 .. MaxTime
  /\ wish    \in [Wishes   -> WishContract    \cup {NoContract}]
  /\ install \in [Installs -> InstallContract \cup {NoContract}]
  /\ license \in [Licenses -> LicenseContract \cup {NoContract}]
  /\ renewal \in [Renewals -> RenewalContract \cup {NoContract}]
  /\ allocated \subseteq Created(renewal)
  /\ wallet \in [Users -> 0 .. Funds]
  /\ income \in Nat
  /\ overlapped \in BOOLEAN

Init ==
  /\ now = 0
  /\ wish    = [c \in Wishes   |-> NoContract]
  /\ install = [c \in Installs |-> NoContract]
  /\ license = [c \in Licenses |-> NoContract]
  /\ renewal = [c \in Renewals |-> NoContract]
  /\ allocated = {}
  /\ wallet = [u \in Users |-> Funds]
  /\ income = 0
  /\ overlapped = FALSE

-----------------------------------------------------------------------------
Tick ==
  /\ now < MaxTime
  /\ now' = now + 1
  /\ UNCHANGED <<installVars, license, renewal, feeVars>>

(* Installation *)

\* The user's own participant creates it (external to the backend).
CreateAppInstallRequest(u) ==
  /\ \E w \in Fresh(wish) : wish' = [wish EXCEPT ![w] = [user |-> u, state |-> "open"]]
  /\ UNCHANGED <<now, install, overlapped, license, renewal, feeVars>>

AppInstallRequest_Accept(w) ==
  /\ IsOpen(wish, w)
  /\ wish' = Archive(wish, w, "accepted")
  /\ \E i \in Fresh(install) :
       install' = [install EXCEPT ![i] = [user |-> wish[w].user, numLicensesCreated |-> 0,
                                          root |-> i, state |-> "open"]]
  /\ overlapped' = (overlapped \/ \E i \in Installs : IsOpen(install, i)
                                                     /\ install[i].user = wish[w].user)
  /\ UNCHANGED <<now, license, renewal, feeVars>>

AppInstallRequest_Reject(w) ==
  /\ IsOpen(wish, w)
  /\ wish' = Archive(wish, w, "rejected")
  /\ UNCHANGED <<now, install, overlapped, license, renewal, feeVars>>

NewLicense(i, c, num) ==
  license' = [license EXCEPT ![c] = [user |-> install[i].user, licenseNum |-> num,
                                     expiresAt |-> now, issuedAt |-> now,
                                     install |-> install[i].root, root |-> c,
                                     state |-> "open"]]

\* Bug: the number is taken before it is counted up.
AppInstall_CreateLicense_FromZero(i) ==
  /\ IsOpen(install, i)
  /\ \E c \in Fresh(license) : NewLicense(i, c, install[i].numLicensesCreated)
  /\ \E next \in Fresh(install) :
       install' = [install EXCEPT ![i].state = "replaced",
                                  ![next] = [install[i] EXCEPT !.numLicensesCreated = @ + 1]]
  /\ UNCHANGED <<now, wish, overlapped, renewal, feeVars>>

\* Bug: the choice is nonconsuming.
AppInstall_CreateLicense_Nonconsuming(i) ==
  /\ IsOpen(install, i)
  /\ \E c \in Fresh(license) : NewLicense(i, c, install[i].numLicensesCreated + 1)
  /\ \E next \in Fresh(install) :
       install' = [install EXCEPT ![next] = [install[i] EXCEPT !.numLicensesCreated = @ + 1]]
  /\ UNCHANGED <<now, wish, overlapped, renewal, feeVars>>

\* The license is issued expired, to be renewed against a fee.
AppInstall_CreateLicense(i) ==
  /\ IsOpen(install, i)
  /\ \E c \in Fresh(license) : NewLicense(i, c, install[i].numLicensesCreated + 1)
  /\ \E next \in Fresh(install) :
       install' = [install EXCEPT ![i].state = "replaced",
                                  ![next] = [install[i] EXCEPT !.numLicensesCreated = @ + 1]]
  /\ UNCHANGED <<now, wish, overlapped, renewal, feeVars>>

\* Licenses are not cancelled with the installation they were issued through.
AppInstall_Cancel(i) ==
  /\ IsOpen(install, i)
  /\ install' = Archive(install, i, "cancelled")
  /\ UNCHANGED <<now, wish, overlapped, license, renewal, feeVars>>

-----------------------------------------------------------------------------
(* Renewal *)

License_Renew(c, fee, extension, w) ==
  /\ IsOpen(license, c)
  /\ now < w[1] /\ w[1] < w[2]
  /\ \E q \in Fresh(renewal) :
       renewal' = [renewal EXCEPT ![q] =
         [user |-> license[c].user, licenseNum |-> license[c].licenseNum,
          fee |-> fee, extension |-> extension, prepareUntil |-> w[1], settleBefore |-> w[2],
          asked |-> c, renews |-> 0, state |-> "open"]]
  /\ UNCHANGED <<now, installVars, license, feeVars>>

License_Expire(c) ==
  /\ IsOpen(license, c)
  /\ now >= license[c].expiresAt
  /\ license' = Archive(license, c, "expired")
  /\ UNCHANGED <<now, installVars, renewal, feeVars>>

\* Bug: what is left of the license is lost.
ExtendedExpiry_FromNow(c, extension) == now + extension

\* (max now oldLicense.expiresAt) `addRelTime` licenseExtensionDuration
ExtendedExpiry(c, extension) ==
  (IF now < license[c].expiresAt THEN license[c].expiresAt ELSE now) + extension

\* Bug: the request is not archived.
LicenseRenewalRequest_CompleteRenewal_Nonconsuming(q, c) ==
  /\ IsOpen(renewal, q) /\ now < renewal[q].settleBefore /\ q \in allocated
  /\ IsOpen(license, c)
  /\ license[c].user = renewal[q].user /\ license[c].licenseNum = renewal[q].licenseNum
  /\ allocated' = allocated \ {q}
  /\ income' = income + renewal[q].fee
  /\ renewal' = [renewal EXCEPT ![q].renews = c]
  /\ \E next \in Fresh(license) :
       license' = [license EXCEPT ![c].state = "renewed",
         ![next] = [license[c] EXCEPT !.expiresAt = ExtendedExpiry(c, renewal[q].extension)]]
  /\ UNCHANGED <<now, installVars, wallet>>

\* The license to renew is an argument, which only has to have the number and the
\* parties of the request.
LicenseRenewalRequest_CompleteRenewal(q, c) ==
  /\ IsOpen(renewal, q)
  /\ now < renewal[q].settleBefore
  /\ q \in allocated
  /\ IsOpen(license, c)
  /\ license[c].user = renewal[q].user
  /\ license[c].licenseNum = renewal[q].licenseNum
  /\ allocated' = allocated \ {q}
  /\ income' = income + renewal[q].fee
  /\ renewal' = [renewal EXCEPT ![q].state = "completed", ![q].renews = c]
  /\ \E next \in Fresh(license) :
       license' = [license EXCEPT ![c].state = "renewed",
         ![next] = [license[c] EXCEPT !.expiresAt = ExtendedExpiry(c, renewal[q].extension)]]
  /\ UNCHANGED <<now, installVars, wallet>>

\* AllocationRequest_Reject by the user, AllocationRequest_Withdraw by the provider.
DropRenewalRequest(q) ==
  /\ IsOpen(renewal, q)
  /\ renewal' = Archive(renewal, q, "dropped")
  /\ UNCHANGED <<now, installVars, license, feeVars>>

\* The user's wallet locks the fee, before prepareUntil, and may take it back.
Allocate(q) ==
  /\ IsOpen(renewal, q)
  /\ q \notin allocated
  /\ now < renewal[q].prepareUntil
  /\ wallet[renewal[q].user] >= renewal[q].fee
  /\ allocated' = allocated \cup {q}
  /\ wallet' = [wallet EXCEPT ![renewal[q].user] = @ - renewal[q].fee]
  /\ UNCHANGED <<now, installVars, license, renewal, income>>

Allocation_Withdraw(q) ==
  /\ q \in allocated
  /\ allocated' = allocated \ {q}
  /\ wallet' = [wallet EXCEPT ![renewal[q].user] = @ + renewal[q].fee]
  /\ UNCHANGED <<now, installVars, license, renewal, income>>

-----------------------------------------------------------------------------
Installation ==
  \/ \E u \in Users : CreateAppInstallRequest(u)
  \/ \E w \in Wishes : AppInstallRequest_Accept(w) \/ AppInstallRequest_Reject(w)
  \/ \E i \in Installs : AppInstall_CreateLicense(i) \/ AppInstall_Cancel(i)

Renewing ==
  \/ \E c \in Licenses, fee \in Fees, extension \in Extensions, w \in Windows :
       License_Renew(c, fee, extension, w)
  \/ \E c \in Licenses : License_Expire(c)
  \/ \E q \in Renewals, c \in Licenses : LicenseRenewalRequest_CompleteRenewal(q, c)
  \/ \E q \in Renewals : DropRenewalRequest(q) \/ Allocate(q) \/ Allocation_Withdraw(q)

Next == Tick \/ Installation \/ Renewing

Spec == Init /\ [][Next]_vars

-----------------------------------------------------------------------------
(***************************************************************************)
(* Safety.                                                                 *)
(***************************************************************************)

\* Two active licenses of one user that were issued through the same installation
\* differ in their number, whatever was renewed and however often the installation
\* was replaced ("Its uniqueness depends on `AppInstall`s being unique").
NumbersUniqueInInstall ==
  \A c, d \in Created(license) :
    /\ IsOpen(license, c) /\ IsOpen(license, d)
    /\ license[c].install = license[d].install
    /\ license[c].licenseNum = license[d].licenseNum
    => c = d

\* A user gets the time paid for: a license is valid at least as long after it was
\* issued as all the renewals completed on it last together.
RenewedThrough(root) ==
  {q \in Created(renewal) : renewal[q].renews # 0 /\ license[renewal[q].renews].root = root}

TimePaid(root) == SumFunction([q \in RenewedThrough(root) |-> renewal[q].extension])

FeesBuyTime ==
  \A c \in Created(license) :
    IsOpen(license, c) => license[c].expiresAt >= license[c].issuedAt + TimePaid(license[c].root)

\* A fee is paid once, for a renewal that was completed, and what is locked comes
\* back or is paid: no holding is lost.
FeesPaidOnce ==
  LET completed == {q \in Created(renewal) : renewal[q].state = "completed"} IN
  /\ income = SumFunction([q \in completed |-> renewal[q].fee])
  /\ completed \cap allocated = {}
  /\ \A u \in Users :
       Funds = wallet[u] + SumFunction([q \in {q \in completed \cup allocated : renewal[q].user = u}
                                    |-> renewal[q].fee])

\* "validate that the old license is the one that is being renewed"
\* (LicenseRenewalRequest_CompleteRenewal): a fee asked for one license never renews
\* another, as long as no user has two installations.
RenewsItsLicense ==
  \A q \in Created(renewal) :
    (renewal[q].renews # 0 /\ ~overlapped)
      => license[renewal[q].renews].root = license[renewal[q].asked].root
=============================================================================
