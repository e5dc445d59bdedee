-------------------------- MODULE LicensingProofs ---------------------------
(***************************************************************************)
(* Proofs about Licensing, for every set of users, fees, extensions,       *)
(* windows and contract ids.                                               *)
(***************************************************************************)
EXTENDS Licensing, Sums

\* The licenses of an installation are numbered from its counter, which one open
\* contract of the installation holds, and a license that is renewed keeps its number
\* in one open contract.
LicensesNumbered ==
  /\ \A i \in Created(install) : install[i].root \in Created(install)
  /\ \A i, j \in Created(install) :
       (IsOpen(install, i) /\ IsOpen(install, j) /\ install[i].root = install[j].root) => i = j
  /\ \A c \in Created(license) : /\ license[c].root \in Created(license)
                                 /\ license[c].install \in Created(install)
  /\ \A c \in Created(license), i \in Created(install) :
       (IsOpen(install, i) /\ license[c].install = install[i].root)
         => license[c].licenseNum <= install[i].numLicensesCreated
  /\ \A c, d \in Created(license) :
       (license[c].install = license[d].install /\ license[c].licenseNum = license[d].licenseNum)
         => license[c].root = license[d].root
  /\ \A c, d \in Created(license) :
       (IsOpen(license, c) /\ IsOpen(license, d) /\ license[c].root = license[d].root) => c = d

\* Only a completed renewal has renewed a license.
RenewalsRecorded ==
  \A q \in Created(renewal) :
    /\ renewal[q].renews # 0 => renewal[q].renews \in Created(license)
    /\ renewal[q].state # "completed" => renewal[q].renews = 0

LicensingInv == /\ TypeOK
                /\ IsFiniteSet(Created(renewal))
                /\ FeesPaidOnce
                /\ LicensesNumbered
                /\ RenewalsRecorded
                /\ FeesBuyTime

-----------------------------------------------------------------------------
(* Contracts *)

LEMMA NoLicensingContract ==
  /\ NoContract \notin WishContract /\ NoContract \notin InstallContract
  /\ NoContract \notin LicenseContract /\ NoContract \notin RenewalContract
BY NoLicensingContractAssumption

-----------------------------------------------------------------------------
(* What each choice does to the contracts it touches *)

LEMMA LicenseIssued ==
  ASSUME TypeOK, NEW i \in Installs, AppInstall_CreateLicense(i)
  PROVE  \E c \in Licenses, next \in Installs :
           /\ c \notin Created(license) /\ Created(license') = Created(license) \cup {c}
           /\ license' \in [Licenses -> LicenseContract \cup {NoContract}]
           /\ \A d \in Created(license) : license'[d] = license[d]
           /\ license'[c].licenseNum = install[i].numLicensesCreated + 1
           /\ license'[c].expiresAt = now /\ license'[c].issuedAt = now
           /\ license'[c].install = install[i].root /\ license'[c].root = c
           /\ next \notin Created(install) /\ Created(install') = Created(install) \cup {next}
           /\ install' \in [Installs -> InstallContract \cup {NoContract}]
           /\ \A j \in Created(install) \ {i} : install'[j] = install[j]
           /\ i \in Created(install) /\ install[i].state = "open"
           /\ install[i].numLicensesCreated \in Nat
           /\ install'[i].state = "replaced" /\ install'[i].root = install[i].root
           /\ install'[next].root = install[i].root
           /\ install'[next].numLicensesCreated = install[i].numLicensesCreated + 1
<1>1. i \in Created(install) /\ install[i] \in InstallContract /\ install[i].state = "open"
  BY DEF AppInstall_CreateLicense, IsOpen, Created, TypeOK
<1> DEFINE new(c) == [user |-> install[i].user, licenseNum |-> install[i].numLicensesCreated + 1,
                      expiresAt |-> now, issuedAt |-> now, install |-> install[i].root,
                      root |-> c, state |-> "open"]
           gone == [install[i] EXCEPT !.state = "replaced"]
           more == [install[i] EXCEPT !.numLicensesCreated = @ + 1]
<1>2. PICK c \in Fresh(license) : license' = [license EXCEPT ![c] = new(c)]
  BY DEF AppInstall_CreateLicense, NewLicense
<1>3. PICK next \in Fresh(install) :
        install' = [install EXCEPT ![i].state = "replaced", ![next] = more]
  BY DEF AppInstall_CreateLicense
<1>4. c \in Licenses /\ new(c) \in LicenseContract
  <2>1. c \in Licenses
    BY DEF Fresh, TypeOK
  <2>2. now \in Nat
    BY LicensingAssumption DEF TypeOK
  <2> QED
    BY <1>1, <2>1, <2>2 DEF LicenseContract, InstallContract
<1>5. gone \in InstallContract /\ more \in InstallContract
  BY <1>1 DEF InstallContract
<1>6. /\ c \notin Created(license) /\ Created(license') = Created(license) \cup {c}
      /\ license' \in [Licenses -> LicenseContract \cup {NoContract}]
      /\ license'[c] = new(c) /\ \A d \in Created(license) : license'[d] = license[d]
  <2>1. license \in [Licenses -> LicenseContract \cup {NoContract}]
    BY DEF TypeOK
  <2>2. PICK contract \in LicenseContract : contract = new(c)
    BY <1>4
  <2>3. license' = [license EXCEPT ![c] = contract]
    BY <1>2, <2>2
  <2> QED
    BY <2>1, <2>2, <2>3, NoLicensingContract DEF Fresh, Created
<1>7. /\ next \in Installs /\ next \notin Created(install)
      /\ Created(install') = Created(install) \cup {next}
      /\ install' \in [Installs -> InstallContract \cup {NoContract}]
      /\ install'[i] = gone /\ install'[next] = more
      /\ \A j \in Created(install) \ {i} : install'[j] = install[j]
  <2>1. install \in [Installs -> InstallContract \cup {NoContract}]
    BY DEF TypeOK
  <2>2. IsOpen(install, i)
    BY <1>1 DEF IsOpen
  <2>3. PICK left \in InstallContract, right \in InstallContract : left = gone /\ right = more
    BY <1>5
  <2>4. install' = [install EXCEPT ![i] = left, ![next] = right]
    BY <1>3, <2>1, <2>3
  <2> QED
    BY <2>1, <2>2, <2>3, <2>4, NoLicensingContract DEF Fresh, IsOpen, Created
<1> QED
  BY <1>1, <1>4, <1>6, <1>7 DEF InstallContract

LEMMA InstallCancelled ==
  ASSUME TypeOK, NEW i \in Installs, AppInstall_Cancel(i)
  PROVE  /\ install' \in [Installs -> InstallContract \cup {NoContract}]
         /\ Created(install') = Created(install) /\ i \in Created(install)
         /\ install'[i].state = "cancelled" /\ install'[i].root = install[i].root
         /\ \A j \in Created(install) \ {i} : install'[j] = install[j]
<1>1. i \in Created(install) /\ install[i] \in InstallContract
  BY DEF AppInstall_Cancel, IsOpen, Created, TypeOK
<1>2. PICK gone \in InstallContract : gone = [install[i] EXCEPT !.state = "cancelled"]
  BY <1>1 DEF InstallContract
<1>3. install' = [install EXCEPT ![i] = gone]
  BY <1>2 DEF AppInstall_Cancel, Archive, TypeOK
<1>4. gone.state = "cancelled" /\ gone.root = install[i].root
  BY <1>1, <1>2 DEF InstallContract
<1> QED
  BY <1>1, <1>3, <1>4, NoLicensingContract DEF Created, TypeOK

LEMMA InstallAccepted ==
  ASSUME TypeOK, NEW w \in Wishes, AppInstallRequest_Accept(w)
  PROVE  \E i \in Installs :
           /\ i \notin Created(install) /\ Created(install') = Created(install) \cup {i}
           /\ install' \in [Installs -> InstallContract \cup {NoContract}]
           /\ install'[i].root = i
           /\ \A j \in Created(install) : install'[j] = install[j]
<1>1. wish[w] \in WishContract
  BY DEF AppInstallRequest_Accept, IsOpen, Created, TypeOK
<1>2. PICK i \in Fresh(install) :
        install' = [install EXCEPT ![i] = [user |-> wish[w].user, numLicensesCreated |-> 0,
                                           root |-> i, state |-> "open"]]
  BY DEF AppInstallRequest_Accept
<1>3. i \in Installs
  BY DEF Fresh, TypeOK
<1>4. PICK new \in InstallContract :
        new = [user |-> wish[w].user, numLicensesCreated |-> 0, root |-> i, state |-> "open"]
  BY <1>1, <1>3 DEF InstallContract, WishContract
<1>5. install' = [install EXCEPT ![i] = new] /\ new.root = i
  BY <1>2, <1>4
<1> QED
  BY <1>3, <1>5, NoLicensingContract DEF Fresh, Created, TypeOK

LEMMA LicenseExpired ==
  ASSUME TypeOK, NEW c \in Licenses, License_Expire(c)
  PROVE  /\ license' \in [Licenses -> LicenseContract \cup {NoContract}]
         /\ Created(license') = Created(license) /\ c \in Created(license)
         /\ license'[c].state = "expired" /\ license'[c].root = license[c].root
         /\ license'[c].install = license[c].install
         /\ license'[c].licenseNum = license[c].licenseNum
         /\ \A d \in Created(license) \ {c} : license'[d] = license[d]
<1>1. c \in Created(license) /\ license[c] \in LicenseContract
  BY DEF License_Expire, IsOpen, Created, TypeOK
<1>2. PICK gone \in LicenseContract : gone = [license[c] EXCEPT !.state = "expired"]
  BY <1>1 DEF LicenseContract
<1>3. license' = [license EXCEPT ![c] = gone]
  BY <1>2 DEF License_Expire, Archive, TypeOK
<1>4. /\ gone.state = "expired" /\ gone.root = license[c].root
      /\ gone.install = license[c].install /\ gone.licenseNum = license[c].licenseNum
  BY <1>1, <1>2 DEF LicenseContract
<1> QED
  BY <1>1, <1>3, <1>4, NoLicensingContract DEF Created, TypeOK

LEMMA LicenseRenewed ==
  ASSUME TypeOK, NEW q \in Renewals, NEW c \in Licenses,
         LicenseRenewalRequest_CompleteRenewal(q, c)
  PROVE  \E next \in Licenses :
           /\ next \notin Created(license) /\ Created(license') = Created(license) \cup {next}
           /\ license' \in [Licenses -> LicenseContract \cup {NoContract}]
           /\ \A d \in Created(license) \ {c} : license'[d] = license[d]
           /\ c \in Created(license) /\ license[c].state = "open" /\ license'[c].state = "renewed"
           /\ \A d \in {c, next} : /\ license'[d].root = license[c].root
                                   /\ license'[d].install = license[c].install
                                   /\ license'[d].licenseNum = license[c].licenseNum
                                   /\ license'[d].issuedAt = license[c].issuedAt
           /\ license'[next].expiresAt >= license[c].expiresAt + renewal[q].extension
           /\ license[c].expiresAt \in Nat /\ license[c].issuedAt \in Nat
           /\ license'[next].expiresAt \in Nat /\ renewal[q].extension \in Nat
<1>1. c \in Created(license) /\ license[c] \in LicenseContract /\ license[c].state = "open"
  BY DEF LicenseRenewalRequest_CompleteRenewal, IsOpen, Created, TypeOK
<1>2. renewal[q].extension \in Nat /\ license[c].expiresAt \in Nat /\ now \in Nat
  BY <1>1, LicensingAssumption
     DEF LicenseRenewalRequest_CompleteRenewal, IsOpen, Created, TypeOK, RenewalContract,
         LicenseContract
<1>3. PICK gone \in LicenseContract : gone = [license[c] EXCEPT !.state = "renewed"]
  BY <1>1 DEF LicenseContract
<1>4. PICK expiry \in Nat : /\ expiry = ExtendedExpiry(c, renewal[q].extension)
                            /\ expiry >= license[c].expiresAt + renewal[q].extension
  BY <1>2 DEF ExtendedExpiry
<1>5. PICK left \in LicenseContract : left = [license[c] EXCEPT !.expiresAt = expiry]
  BY <1>1 DEF LicenseContract
<1>6. PICK next \in Fresh(license) :
        license' = [license EXCEPT ![c].state = "renewed",
                      ![next] = [license[c] EXCEPT !.expiresAt = expiry]]
  BY <1>4 DEF LicenseRenewalRequest_CompleteRenewal
<1>7. license' = [license EXCEPT ![c] = gone, ![next] = left]
  BY <1>3, <1>5, <1>6 DEF TypeOK
<1>8. /\ next \in Licenses /\ next \notin Created(license) /\ next # c
      /\ Created(license') = Created(license) \cup {next}
      /\ license' \in [Licenses -> LicenseContract \cup {NoContract}]
      /\ \A d \in Created(license) \ {c} : license'[d] = license[d]
      /\ license'[c] = gone /\ license'[next] = left
  BY <1>1, <1>7, NoLicensingContract DEF Fresh, Created, TypeOK
<1>9. /\ gone.state = "renewed" /\ left.expiresAt = expiry
      /\ \A d \in {gone, left} : /\ d.root = license[c].root /\ d.install = license[c].install
                                 /\ d.licenseNum = license[c].licenseNum
                                 /\ d.issuedAt = license[c].issuedAt
      /\ license[c].issuedAt \in Nat
  BY <1>1, <1>3, <1>5 DEF LicenseContract
<1> QED
  BY <1>1, <1>2, <1>4, <1>8, <1>9

LEMMA RenewalAsked ==
  ASSUME TypeOK, NEW c \in Licenses, NEW fee \in Fees, NEW extension \in Extensions,
         NEW w \in Windows, License_Renew(c, fee, extension, w)
  PROVE  \E q \in Renewals :
           /\ q \notin Created(renewal) /\ Created(renewal') = Created(renewal) \cup {q}
           /\ renewal' \in [Renewals -> RenewalContract \cup {NoContract}]
           /\ \A r \in Created(renewal) : renewal'[r] = renewal[r]
           /\ renewal'[q].state = "open" /\ renewal'[q].renews = 0
<1>1. license[c] \in LicenseContract
  BY DEF License_Renew, IsOpen, Created, TypeOK
<1>2. w[1] \in Nat /\ w[2] \in Nat
  BY LicensingAssumption
<1> DEFINE record == [user |-> license[c].user, licenseNum |-> license[c].licenseNum,
                      fee |-> fee, extension |-> extension, prepareUntil |-> w[1],
                      settleBefore |-> w[2], asked |-> c, renews |-> 0, state |-> "open"]
<1>3. record \in RenewalContract
  BY <1>1, <1>2 DEF RenewalContract, LicenseContract
<1>4. PICK new \in RenewalContract : new = record
  BY <1>3
<1>5. PICK q \in Fresh(renewal) : renewal' = [renewal EXCEPT ![q] = new]
  BY <1>4 DEF License_Renew
<1>6. new.state = "open" /\ new.renews = 0
  BY <1>4
<1> QED
  BY <1>5, <1>6, NoLicensingContract DEF Fresh, Created, TypeOK

\* A renewal request completed, or dropped.
LEMMA RenewalClosed ==
  ASSUME TypeOK, NEW q \in Renewals, IsOpen(renewal, q), NEW how \in {"completed", "dropped"},
         NEW renews \in Licenses \cup {0},
         renewal' = [renewal EXCEPT ![q] = [renewal[q] EXCEPT !.state = how, !.renews = renews]]
  PROVE  /\ renewal' \in [Renewals -> RenewalContract \cup {NoContract}]
         /\ Created(renewal') = Created(renewal) /\ q \in Created(renewal)
         /\ renewal'[q].state = how /\ renewal'[q].renews = renews
         /\ renewal'[q].user = renewal[q].user /\ renewal'[q].fee = renewal[q].fee
         /\ renewal'[q].extension = renewal[q].extension
         /\ \A r \in Created(renewal) \ {q} : renewal'[r] = renewal[r]
<1>1. q \in Created(renewal) /\ renewal[q] \in RenewalContract
  BY DEF IsOpen, Created, TypeOK
<1>2. PICK gone \in RenewalContract :
        gone = [renewal[q] EXCEPT !.state = how, !.renews = renews]
  BY <1>1 DEF RenewalContract
<1>3. /\ gone.state = how /\ gone.renews = renews /\ gone.user = renewal[q].user
      /\ gone.fee = renewal[q].fee /\ gone.extension = renewal[q].extension
  BY <1>1, <1>2 DEF RenewalContract
<1>4. renewal' = [renewal EXCEPT ![q] = gone]
  BY <1>2
<1>5. renewal \in [Renewals -> RenewalContract \cup {NoContract}] /\ gone # NoContract
  BY NoLicensingContract DEF TypeOK
<1>6. /\ renewal' \in [Renewals -> RenewalContract \cup {NoContract}]
      /\ renewal'[q] = gone /\ \A r \in Renewals \ {q} : renewal'[r] = renewal[r]
  BY <1>4, <1>5
<1>7. Created(renewal') = Created(renewal)
  BY <1>1, <1>5, <1>6 DEF Created
<1>8. \A r \in Created(renewal) : r \in Renewals
  BY <1>5 DEF Created
<1> QED
  BY <1>1, <1>3, <1>6, <1>7, <1>8

LEMMA RenewalCompleted ==
  ASSUME LicensingInv, NEW q \in Renewals, NEW c \in Licenses,
         LicenseRenewalRequest_CompleteRenewal(q, c)
  PROVE  /\ renewal' \in [Renewals -> RenewalContract \cup {NoContract}]
         /\ Created(renewal') = Created(renewal) /\ q \in Created(renewal)
         /\ renewal[q].state = "open"
         /\ renewal'[q].state = "completed" /\ renewal'[q].renews = c
         /\ renewal'[q].user = renewal[q].user /\ renewal'[q].fee = renewal[q].fee
         /\ renewal'[q].extension = renewal[q].extension
         /\ \A r \in Created(renewal) \ {q} : renewal'[r] = renewal[r]
<1>1. IsOpen(renewal, q) /\ TypeOK
      /\ renewal' = [renewal EXCEPT ![q].state = "completed", ![q].renews = c]
  BY DEF LicenseRenewalRequest_CompleteRenewal, LicensingInv
<1>2. renewal' = [renewal EXCEPT ![q] = [renewal[q] EXCEPT !.state = "completed", !.renews = c]]
  BY <1>1 DEF TypeOK
<1>3. renewal[q].state = "open"
  BY <1>1 DEF IsOpen
<1> QED
  BY <1>1, <1>2, <1>3, RenewalClosed

LEMMA RenewalDropped ==
  ASSUME LicensingInv, NEW q \in Renewals, DropRenewalRequest(q)
  PROVE  /\ renewal' \in [Renewals -> RenewalContract \cup {NoContract}]
         /\ Created(renewal') = Created(renewal) /\ q \in Created(renewal)
         /\ renewal[q].state = "open" /\ renewal[q].renews = 0
         /\ renewal'[q].state = "dropped" /\ renewal'[q].renews = 0
         /\ renewal'[q].user = renewal[q].user /\ renewal'[q].fee = renewal[q].fee
         /\ renewal'[q].extension = renewal[q].extension
         /\ \A r \in Created(renewal) \ {q} : renewal'[r] = renewal[r]
<1>1. IsOpen(renewal, q) /\ TypeOK /\ renewal' = [renewal EXCEPT ![q].state = "dropped"]
  BY DEF DropRenewalRequest, Archive, LicensingInv
<1>2. renewal[q].state = "open" /\ renewal[q].renews = 0 /\ renewal[q] \in RenewalContract
  BY <1>1 DEF IsOpen, LicensingInv, RenewalsRecorded, TypeOK, Created
<1>3. [renewal[q] EXCEPT !.state = "dropped"]
        = [renewal[q] EXCEPT !.state = "dropped", !.renews = 0]
  BY <1>2 DEF RenewalContract
<1>4. renewal' = [renewal EXCEPT ![q] = [renewal[q] EXCEPT !.state = "dropped", !.renews = 0]]
  BY <1>1, <1>3 DEF TypeOK
<1> QED
  BY <1>1, <1>2, <1>4, RenewalClosed

-----------------------------------------------------------------------------
(* Numbers *)

LEMMA InstallCounted ==
  ASSUME TypeOK, LicensesNumbered, NEW i \in Installs, AppInstall_CreateLicense(i)
  PROVE  LicensesNumbered'
<1>1. PICK c \in Licenses, next \in Installs :
        /\ c \notin Created(license) /\ Created(license') = Created(license) \cup {c}
        /\ \A d \in Created(license) : license'[d] = license[d]
        /\ license'[c].licenseNum = install[i].numLicensesCreated + 1
        /\ license'[c].install = install[i].root /\ license'[c].root = c
        /\ next \notin Created(install) /\ Created(install') = Created(install) \cup {next}
        /\ \A j \in Created(install) \ {i} : install'[j] = install[j]
        /\ i \in Created(install) /\ install[i].state = "open"
        /\ install[i].numLicensesCreated \in Nat
        /\ install'[i].state = "replaced" /\ install'[i].root = install[i].root
        /\ install'[next].root = install[i].root
        /\ install'[next].numLicensesCreated = install[i].numLicensesCreated + 1
  BY LicenseIssued
<1>2. \A d \in Created(license) : license[d].licenseNum \in Nat
  BY DEF TypeOK, Created, LicenseContract
<1>3. \A j \in Created(install') : install'[j].root \in Created(install')
  BY <1>1 DEF LicensesNumbered
<1>4. ASSUME NEW j \in Created(install'), NEW k \in Created(install'),
             IsOpen(install, j)', IsOpen(install, k)', install'[j].root = install'[k].root
      PROVE  j = k
  BY <1>1, <1>4 DEF LicensesNumbered, IsOpen
<1>5. \A d \in Created(license') : /\ license'[d].root \in Created(license')
                                   /\ license'[d].install \in Created(install')
  BY <1>1 DEF LicensesNumbered
<1>6. ASSUME NEW d \in Created(license'), NEW j \in Created(install'),
             IsOpen(install, j)', license'[d].install = install'[j].root
      PROVE  license'[d].licenseNum <= install'[j].numLicensesCreated
  <2>1. IsOpen(install, i)
    BY <1>1 DEF IsOpen
  <2>2. CASE j = next
    BY <1>1, <1>2, <1>6, <2>1, <2>2 DEF LicensesNumbered
  <2>3. CASE j # next
    <3>1. j \in Created(install) /\ j # i /\ IsOpen(install, j)
      BY <1>1, <1>6, <2>3 DEF IsOpen
    <3>2. install[j].root # install[i].root
      BY <2>1, <3>1, <1>1 DEF LicensesNumbered
    <3> QED
      BY <1>1, <1>6, <3>1, <3>2 DEF LicensesNumbered
  <2> QED
    BY <2>2, <2>3
<1>7. ASSUME NEW d \in Created(license'), NEW e \in Created(license'),
             license'[d].install = license'[e].install,
             license'[d].licenseNum = license'[e].licenseNum
      PROVE  license'[d].root = license'[e].root
  <2>1. IsOpen(install, i)
    BY <1>1 DEF IsOpen
  <2>2. \A f \in Created(license) :
          license[f].install = install[i].root => license[f].licenseNum # install[i].numLicensesCreated + 1
    BY <1>1, <1>2, <2>1 DEF LicensesNumbered
  <2> QED
    BY <1>1, <1>7, <2>2 DEF LicensesNumbered
<1>8. ASSUME NEW d \in Created(license'), NEW e \in Created(license'),
             IsOpen(license, d)', IsOpen(license, e)', license'[d].root = license'[e].root
      PROVE  d = e
  BY <1>1, <1>8 DEF LicensesNumbered, IsOpen
<1> QED
  BY <1>3, <1>4, <1>5, <1>6, <1>7, <1>8 DEF LicensesNumbered

LEMMA InstallsChange ==
  ASSUME TypeOK, LicensesNumbered, NEW more, Created(install') = Created(install) \cup more,
         more \cap Created(install) = {}, license' = license,
         \A i \in more : install'[i].root = i,
         \A i, j \in more : i = j,
         \A i \in Created(install) : /\ install'[i].root = install[i].root
                                     /\ \/ install'[i] = install[i]
                                        \/ install'[i].state # "open"
  PROVE  LicensesNumbered'
<1>1. Created(license') = Created(license)
  OBVIOUS
<1>2. \A i \in Created(install') : install'[i].root \in Created(install')
  BY DEF LicensesNumbered
<1>3. \A i \in Created(install) : IsOpen(install, i)' => IsOpen(install, i) /\ install'[i] = install[i]
  BY DEF IsOpen
<1>4. \A i \in more, j \in Created(install) : install'[i].root # install'[j].root
  BY DEF LicensesNumbered
<1>5. \A i, j \in Created(install') :
        (IsOpen(install, i)' /\ IsOpen(install, j)' /\ install'[i].root = install'[j].root)
          => i = j
  BY <1>3, <1>4 DEF LicensesNumbered
<1>6. \A c \in Created(license'), i \in Created(install') :
        (IsOpen(install, i)' /\ license'[c].install = install'[i].root)
          => license'[c].licenseNum <= install'[i].numLicensesCreated
  BY <1>3 DEF LicensesNumbered
<1>7. /\ \A c \in Created(license') : /\ license'[c].root \in Created(license')
                                      /\ license'[c].install \in Created(install')
      /\ \A c, d \in Created(license') :
           (license'[c].install = license'[d].install /\ license'[c].licenseNum = license'[d].licenseNum)
             => license'[c].root = license'[d].root
      /\ \A c, d \in Created(license') :
           (IsOpen(license, c)' /\ IsOpen(license, d)' /\ license'[c].root = license'[d].root)
             => c = d
  BY DEF LicensesNumbered, IsOpen
<1> QED
  BY <1>2, <1>5, <1>6, <1>7 DEF LicensesNumbered

\* A license that is renewed or expired.
LEMMA LicensesChange ==
  ASSUME TypeOK, LicensesNumbered, NEW c \in Created(license), NEW more,
         Created(license') = Created(license) \cup more, more \cap Created(license) = {},
         install' = install, license'[c].state # "open", IsOpen(license, c) \/ more = {},
         \A d \in more \cup {c} : /\ license'[d].root = license[c].root
                                  /\ license'[d].install = license[c].install
                                  /\ license'[d].licenseNum = license[c].licenseNum,
         \A d, e \in more : d = e,
         \A d \in Created(license) \ {c} : license'[d] = license[d]
  PROVE  LicensesNumbered'
<1>1. \A d \in Created(license') :
        \E e \in Created(license) : /\ license'[d].root = license[e].root
                                    /\ license'[d].install = license[e].install
                                    /\ license'[d].licenseNum = license[e].licenseNum
  OBVIOUS
<1>2. Created(install') = Created(install)
  OBVIOUS
<1>3. \A d \in Created(license') : /\ license'[d].root \in Created(license')
                                   /\ license'[d].install \in Created(install')
  BY <1>1, <1>2 DEF LicensesNumbered
<1>4. \A d \in Created(license'), i \in Created(install') :
        (IsOpen(install, i)' /\ license'[d].install = install'[i].root)
          => license'[d].licenseNum <= install'[i].numLicensesCreated
  BY <1>1, <1>2 DEF LicensesNumbered, IsOpen
<1>5. \A d, e \in Created(license') :
        (license'[d].install = license'[e].install /\ license'[d].licenseNum = license'[e].licenseNum)
          => license'[d].root = license'[e].root
  BY <1>1 DEF LicensesNumbered
<1>6. ASSUME NEW d \in Created(license'), NEW e \in Created(license'),
             IsOpen(license, d)', IsOpen(license, e)', license'[d].root = license'[e].root
      PROVE  d = e
  <2>1. \A f \in Created(license) \ {c} : IsOpen(license, f)' => IsOpen(license, f)
    BY DEF IsOpen
  <2>2. d # c /\ e # c
    BY <1>6 DEF IsOpen
  <2>3. \A f \in Created(license) \ {c} : IsOpen(license, c) /\ IsOpen(license, f)
          => license[f].root # license[c].root
    BY DEF LicensesNumbered
  <2> QED
    BY <1>6, <2>1, <2>2, <2>3 DEF LicensesNumbered
<1>7. /\ \A i \in Created(install') : install'[i].root \in Created(install')
      /\ \A i, j \in Created(install') :
           (IsOpen(install, i)' /\ IsOpen(install, j)' /\ install'[i].root = install'[j].root)
             => i = j
  BY DEF LicensesNumbered, IsOpen
<1> QED
  BY <1>3, <1>4, <1>5, <1>6, <1>7 DEF LicensesNumbered

LEMMA LicensesStayNumbered ==
  ASSUME LicensingInv, Next
  PROVE  LicensesNumbered'
<1>0. TypeOK /\ LicensesNumbered
  BY DEF LicensingInv
<1>1. ASSUME install' = install, license' = license PROVE LicensesNumbered'
  BY <1>0, <1>1 DEF LicensesNumbered, IsOpen, Created
<1>2. CASE Tick
  BY <1>1, <1>2 DEF Tick, installVars
<1>3. ASSUME NEW u \in Users, CreateAppInstallRequest(u) PROVE LicensesNumbered'
  BY <1>1, <1>3 DEF CreateAppInstallRequest
<1>4. ASSUME NEW w \in Wishes, AppInstallRequest_Accept(w) PROVE LicensesNumbered'
  <2>1. PICK i \in Installs : /\ i \notin Created(install)
                              /\ Created(install') = Created(install) \cup {i}
                              /\ install'[i].root = i
                              /\ \A j \in Created(install) : install'[j] = install[j]
    BY <1>0, <1>4, InstallAccepted
  <2>2. license' = license
    BY <1>4 DEF AppInstallRequest_Accept
  <2>3. PICK more : more = {i}
    OBVIOUS
  <2> QED
    BY <1>0, <2>1, <2>2, <2>3, InstallsChange
<1>5. ASSUME NEW w \in Wishes, AppInstallRequest_Reject(w) PROVE LicensesNumbered'
  BY <1>1, <1>5 DEF AppInstallRequest_Reject
<1>6. ASSUME NEW i \in Installs, AppInstall_CreateLicense(i) PROVE LicensesNumbered'
  BY <1>0, <1>6, InstallCounted
<1>7. ASSUME NEW i \in Installs, AppInstall_Cancel(i) PROVE LicensesNumbered'
  <2>1. license' = license
    BY <1>7 DEF AppInstall_Cancel
  <2>2. PICK more : more = {}
    OBVIOUS
  <2>3. /\ Created(install') = Created(install) \cup more
        /\ \A j \in Created(install) : /\ install'[j].root = install[j].root
                                       /\ \/ install'[j] = install[j]
                                          \/ install'[j].state # "open"
    BY <1>0, <1>7, <2>2, InstallCancelled
  <2> QED
    BY <1>0, <2>1, <2>3, <2>2, InstallsChange
<1>8. ASSUME NEW c \in Licenses, NEW fee \in Fees, NEW extension \in Extensions,
             NEW w \in Windows, License_Renew(c, fee, extension, w)
      PROVE  LicensesNumbered'
  BY <1>1, <1>8 DEF License_Renew, installVars
<1>9. ASSUME NEW c \in Licenses, License_Expire(c) PROVE LicensesNumbered'
  <2>1. install' = install
    BY <1>9 DEF License_Expire, installVars
  <2>2. PICK more : more = {}
    OBVIOUS
  <2>3. /\ Created(license') = Created(license) \cup more /\ c \in Created(license)
        /\ license'[c].state # "open"
        /\ \A d \in more \cup {c} : /\ license'[d].root = license[c].root
                                 /\ license'[d].install = license[c].install
                                 /\ license'[d].licenseNum = license[c].licenseNum
        /\ \A d \in Created(license) \ {c} : license'[d] = license[d]
    BY <1>0, <1>9, <2>2, LicenseExpired
  <2> QED
    BY <1>0, <2>1, <2>3, <2>2, LicensesChange
<1>10. ASSUME NEW q \in Renewals, NEW c \in Licenses,
              LicenseRenewalRequest_CompleteRenewal(q, c)
       PROVE  LicensesNumbered'
  <2>1. install' = install
    BY <1>10 DEF LicenseRenewalRequest_CompleteRenewal, installVars
  <2>2. PICK next \in Licenses :
          /\ next \notin Created(license) /\ Created(license') = Created(license) \cup {next}
          /\ \A d \in Created(license) \ {c} : license'[d] = license[d]
          /\ c \in Created(license) /\ license[c].state = "open" /\ license'[c].state = "renewed"
          /\ \A d \in {c, next} : /\ license'[d].root = license[c].root
                                  /\ license'[d].install = license[c].install
                                  /\ license'[d].licenseNum = license[c].licenseNum
    BY <1>0, <1>10, LicenseRenewed
  <2>3. PICK more : more = {next}
    OBVIOUS
  <2>4. IsOpen(license, c)
    BY <2>2 DEF IsOpen
  <2> QED
    BY <1>0, <2>1, <2>2, <2>3, <2>4, LicensesChange
<1>11. ASSUME NEW q \in Renewals, DropRenewalRequest(q) \/ Allocate(q) \/ Allocation_Withdraw(q)
       PROVE  LicensesNumbered'
  BY <1>1, <1>11 DEF DropRenewalRequest, Allocate, Allocation_Withdraw, installVars
<1> QED
  BY <1>2, <1>3, <1>4, <1>5, <1>6, <1>7, <1>8, <1>9, <1>10, <1>11
     DEF Next, Installation, Renewing

-----------------------------------------------------------------------------
(* Fees *)

CompletedIn(r) == {q \in Created(r) : r[q].state = "completed"}
FeesIn(r, S) == SumFunction([q \in S |-> r[q].fee])
PaidOrLocked(r, a, u) == {q \in CompletedIn(r) \cup a : r[q].user = u}

LEMMA FeesPaidOnceIs ==
  FeesPaidOnce <=>
    /\ income = FeesIn(renewal, CompletedIn(renewal))
    /\ CompletedIn(renewal) \cap allocated = {}
    /\ \A u \in Users : Funds = wallet[u] + FeesIn(renewal, PaidOrLocked(renewal, allocated, u))
BY DEF FeesPaidOnce, FeesIn, CompletedIn, PaidOrLocked

LEMMA FeesAlike ==
  ASSUME NEW r, NEW s, NEW S, IsFiniteSet(S), \A q \in S : s[q].fee = r[q].fee
  PROVE  FeesIn(s, S) = FeesIn(r, S)
<1> DEFINE f == [q \in S |-> r[q].fee]
           g == [q \in S |-> s[q].fee]
<1>1. DOMAIN f = S /\ DOMAIN g = S /\ \A q \in S : g[q] = f[q]
  OBVIOUS
<1> HIDE DEF f, g
<1>2. SumFunction(g) = SumFunction(f)
  BY <1>1, SumAlike
<1> QED
  BY <1>2 DEF FeesIn, f, g

LEMMA FeesGrow ==
  ASSUME NEW r, NEW S, IsFiniteSet(S), NEW q, q \notin S,
         \A p \in S \cup {q} : r[p].fee \in Nat
  PROVE  /\ FeesIn(r, S \cup {q}) = FeesIn(r, S) + r[q].fee
         /\ FeesIn(r, S) \in Nat
<1> DEFINE f == [p \in S |-> r[p].fee]
           g == [p \in S \cup {q} |-> r[p].fee]
<1>1. /\ DOMAIN f = S /\ DOMAIN g = S \cup {q} /\ \A p \in S : g[p] = f[p] /\ f[p] \in Nat
      /\ g[q] \in Int /\ g[q] = r[q].fee
  OBVIOUS
<1> HIDE DEF f, g
<1>2. Ints(f, DOMAIN f)
  BY <1>1 DEF Ints
<1>3. SumFunction(g) = SumFunction(f) + g[q]
  BY <1>1, <1>2, SumGrows
<1>4. SumFunction(f) \in Nat
  BY <1>1, SumNat DEF SumFunction
<1> QED
  BY <1>1, <1>3, <1>4 DEF FeesIn, f, g

LEMMA FeesNat ==
  ASSUME NEW r, NEW S, IsFiniteSet(S), \A p \in S : r[p].fee \in Nat
  PROVE  FeesIn(r, S) \in Nat
<1> DEFINE f == [p \in S |-> r[p].fee]
<1>1. DOMAIN f = S /\ \A p \in S : f[p] \in Nat
  OBVIOUS
<1> HIDE DEF f
<1>2. SumFunction(f) \in Nat
  BY <1>1, SumNat DEF SumFunction
<1> QED
  BY <1>2 DEF FeesIn, f

LEMMA FeesFinite ==
  ASSUME TypeOK, IsFiniteSet(Created(renewal))
  PROVE  /\ IsFiniteSet(CompletedIn(renewal))
         /\ \A u : IsFiniteSet(PaidOrLocked(renewal, allocated, u))
         /\ \A q \in Created(renewal) : renewal[q].fee \in Nat /\ renewal[q].user \in Users
         /\ allocated \subseteq Created(renewal) /\ CompletedIn(renewal) \subseteq Created(renewal)
<1>1. CompletedIn(renewal) \subseteq Created(renewal) /\ allocated \subseteq Created(renewal)
  BY DEF CompletedIn, TypeOK
<1>2. \A u : PaidOrLocked(renewal, allocated, u) \subseteq Created(renewal)
  BY <1>1 DEF PaidOrLocked
<1>3. \A q \in Created(renewal) : renewal[q].fee \in Nat /\ renewal[q].user \in Users
  BY LicensingAssumption DEF TypeOK, Created, RenewalContract
<1> QED
  BY <1>1, <1>2, <1>3, FS_Subset

LEMMA FeesPaidOnceNext ==
  FeesPaidOnce' <=>
    /\ income' = FeesIn(renewal', CompletedIn(renewal'))
    /\ CompletedIn(renewal') \cap allocated' = {}
    /\ \A u \in Users :
         Funds = wallet'[u] + FeesIn(renewal', PaidOrLocked(renewal', allocated', u))
BY DEF FeesPaidOnce, FeesIn, CompletedIn, PaidOrLocked

\* A request made or dropped.
LEMMA FeesStay ==
  ASSUME LicensingInv, allocated' = allocated, wallet' = wallet, income' = income,
         Created(renewal) \subseteq Created(renewal'),
         CompletedIn(renewal') = CompletedIn(renewal),
         \A q \in Created(renewal) : /\ renewal'[q].fee = renewal[q].fee
                                     /\ renewal'[q].user = renewal[q].user
  PROVE  FeesPaidOnce'
<1>0. TypeOK /\ IsFiniteSet(Created(renewal)) /\ FeesPaidOnce
  BY DEF LicensingInv
<1>1. \A S \in SUBSET Created(renewal) :
        IsFiniteSet(S) => FeesIn(renewal', S) = FeesIn(renewal, S)
  BY FeesAlike
<1>2. /\ CompletedIn(renewal) \subseteq Created(renewal)
      /\ \A u \in Users : PaidOrLocked(renewal', allocated', u)
                            = PaidOrLocked(renewal, allocated, u)
      /\ \A u \in Users : PaidOrLocked(renewal, allocated, u) \subseteq Created(renewal)
  BY <1>0, FeesFinite DEF PaidOrLocked
<1>3. /\ FeesIn(renewal', CompletedIn(renewal)) = FeesIn(renewal, CompletedIn(renewal))
      /\ \A u \in Users : FeesIn(renewal', PaidOrLocked(renewal, allocated, u))
                            = FeesIn(renewal, PaidOrLocked(renewal, allocated, u))
  BY <1>0, <1>1, <1>2, FeesFinite
<1> QED
  BY <1>0, <1>2, <1>3, FeesPaidOnceIs, FeesPaidOnceNext

LEMMA FeePaid ==
  ASSUME LicensingInv, NEW q \in Renewals, NEW c \in Licenses,
         LicenseRenewalRequest_CompleteRenewal(q, c)
  PROVE  FeesPaidOnce'
<1>0. TypeOK /\ IsFiniteSet(Created(renewal)) /\ FeesPaidOnce
  BY DEF LicensingInv
<1>1. /\ Created(renewal') = Created(renewal) /\ q \in Created(renewal)
      /\ renewal[q].state = "open" /\ renewal'[q].state = "completed"
      /\ renewal'[q].user = renewal[q].user /\ renewal'[q].fee = renewal[q].fee
      /\ \A r \in Created(renewal) \ {q} : renewal'[r] = renewal[r]
  BY RenewalCompleted
<1>2. /\ q \in allocated /\ allocated' = allocated \ {q}
      /\ income' = income + renewal[q].fee /\ wallet' = wallet
  BY DEF LicenseRenewalRequest_CompleteRenewal
<1>3. PICK done : done = CompletedIn(renewal)
  OBVIOUS
<1>4. CompletedIn(renewal') = done \cup {q} /\ q \notin done
  BY <1>1, <1>3 DEF CompletedIn
<1>5. \A S \in SUBSET Created(renewal) :
        IsFiniteSet(S) => FeesIn(renewal', S) = FeesIn(renewal, S)
  BY <1>1, FeesAlike
<1>6. /\ IsFiniteSet(done) /\ IsFiniteSet(done \cup {q}) /\ done \cup {q} \subseteq Created(renewal)
      /\ \A r \in done \cup {q} : renewal[r].fee \in Nat
  <2>1. IsFiniteSet(done) /\ done \subseteq Created(renewal)
    BY <1>0, <1>3, FeesFinite
  <2> QED
    BY <2>1, <1>0, <1>1, FeesFinite, FS_AddElement
<1>7. income' = FeesIn(renewal', CompletedIn(renewal'))
  <2>1. FeesIn(renewal, done \cup {q}) = FeesIn(renewal, done) + renewal[q].fee
    BY <1>4, <1>6, FeesGrow
  <2>2. income = FeesIn(renewal, done)
    BY <1>0, <1>3, FeesPaidOnceIs
  <2> QED
    BY <2>1, <2>2, <1>2, <1>4, <1>5, <1>6
<1>8. CompletedIn(renewal') \cap allocated' = {}
  BY <1>0, <1>2, <1>3, <1>4, FeesPaidOnceIs
<1>9. ASSUME NEW u \in Users
      PROVE  Funds = wallet'[u] + FeesIn(renewal', PaidOrLocked(renewal', allocated', u))
  <2>1. PICK bound : bound = PaidOrLocked(renewal, allocated, u)
    OBVIOUS
  <2>2. PaidOrLocked(renewal', allocated', u) = bound
    <3>1. done \subseteq Created(renewal) /\ allocated \subseteq Created(renewal)
      BY <1>0, <1>3, FeesFinite
    <3> QED
      BY <3>1, <2>1, <1>1, <1>2, <1>3, <1>4 DEF PaidOrLocked
  <2>3. IsFiniteSet(bound) /\ bound \subseteq Created(renewal)
    BY <1>0, <2>1, FeesFinite DEF PaidOrLocked
  <2>4. Funds = wallet[u] + FeesIn(renewal, bound)
    BY <1>0, <2>1, FeesPaidOnceIs
  <2> QED
    BY <2>2, <2>3, <2>4, <1>2, <1>5
<1> QED
  BY <1>7, <1>8, <1>9, FeesPaidOnceNext

\* Locking a fee and taking it back.
LEMMA FeeLocked ==
  ASSUME TypeOK, IsFiniteSet(Created(renewal)), NEW a, NEW q \in Created(renewal),
         a \subseteq Created(renewal), q \notin a, renewal[q].state # "completed", NEW u
  PROVE  /\ FeesIn(renewal, PaidOrLocked(renewal, a \cup {q}, u))
              = FeesIn(renewal, PaidOrLocked(renewal, a, u))
                  + (IF u = renewal[q].user THEN renewal[q].fee ELSE 0)
         /\ FeesIn(renewal, PaidOrLocked(renewal, a, u)) \in Nat
         /\ FeesIn(renewal, PaidOrLocked(renewal, a \cup {q}, u)) \in Nat
         /\ renewal[q].fee \in Nat
<1>1. PICK bound : bound = PaidOrLocked(renewal, a, u)
  OBVIOUS
<1>2. /\ CompletedIn(renewal) \subseteq Created(renewal)
      /\ \A p \in Created(renewal) : renewal[p].fee \in Nat
  BY FeesFinite
<1>3. bound \subseteq Created(renewal) /\ q \notin bound
  BY <1>1, <1>2 DEF PaidOrLocked, CompletedIn
<1>4. IsFiniteSet(bound)
  BY <1>3, FS_Subset
<1>5. FeesIn(renewal, bound) \in Nat
  BY <1>2, <1>3, <1>4, FeesNat
<1>6. CASE u = renewal[q].user
  <2>1. PaidOrLocked(renewal, a \cup {q}, u) = bound \cup {q}
    BY <1>1, <1>6 DEF PaidOrLocked
  <2>2. FeesIn(renewal, bound \cup {q}) = FeesIn(renewal, bound) + renewal[q].fee
    BY <1>2, <1>3, <1>4, FeesGrow
  <2>3. renewal[q].fee \in Nat
    BY <1>2
  <2>4. FeesIn(renewal, bound \cup {q}) \in Nat
    BY <2>2, <2>3, <1>5
  <2>5. (IF u = renewal[q].user THEN renewal[q].fee ELSE 0) = renewal[q].fee
    BY <1>6
  <2> QED
    BY <2>1, <2>2, <2>3, <2>4, <2>5, <1>1, <1>5
<1>7. CASE u # renewal[q].user
  <2>1. PaidOrLocked(renewal, a \cup {q}, u) = bound
    BY <1>1, <1>7 DEF PaidOrLocked
  <2> QED
    BY <2>1, <1>1, <1>2, <1>5, <1>7
<1> QED
  BY <1>6, <1>7

LEMMA FeesPaidWhenLocked ==
  ASSUME LicensingInv, NEW q \in Renewals, Allocate(q)
  PROVE  FeesPaidOnce' /\ wallet' \in [Users -> 0 .. Funds] /\ allocated' \subseteq Created(renewal)
<1>0. TypeOK /\ IsFiniteSet(Created(renewal)) /\ FeesPaidOnce
  BY DEF LicensingInv
<1>1. /\ q \in Created(renewal) /\ renewal[q].state = "open" /\ q \notin allocated
      /\ wallet[renewal[q].user] >= renewal[q].fee /\ allocated' = allocated \cup {q}
      /\ wallet' = [wallet EXCEPT ![renewal[q].user] = @ - renewal[q].fee]
      /\ renewal' = renewal /\ income' = income
  BY DEF Allocate, IsOpen
<1>2. allocated \subseteq Created(renewal) /\ wallet \in [Users -> 0 .. Funds] /\ Funds \in Nat
  BY <1>0, LicensingAssumption DEF TypeOK
<1>3. renewal[q].fee \in Nat
  BY <1>0, <1>1, FeesFinite
<1>4. wallet' \in [Users -> 0 .. Funds]
  <2>1. PICK u \in Users, fee \in Nat : u = renewal[q].user /\ fee = renewal[q].fee
    BY <1>0, <1>1, <1>3, FeesFinite
  <2>2. wallet[u] - fee \in 0 .. Funds
    BY <2>1, <1>1, <1>2
  <2>3. wallet' = [wallet EXCEPT ![u] = wallet[u] - fee]
    BY <2>1, <1>1
  <2> QED
    BY <2>2, <2>3, <1>2
<1>5. CompletedIn(renewal') \cap allocated' = {} /\ income' = FeesIn(renewal', CompletedIn(renewal'))
  BY <1>0, <1>1, FeesPaidOnceIs DEF CompletedIn
<1>6. ASSUME NEW u \in Users
      PROVE  Funds = wallet'[u] + FeesIn(renewal', PaidOrLocked(renewal', allocated', u))
  <2>1. /\ FeesIn(renewal, PaidOrLocked(renewal, allocated \cup {q}, u))
             = FeesIn(renewal, PaidOrLocked(renewal, allocated, u))
                 + (IF u = renewal[q].user THEN renewal[q].fee ELSE 0)
        /\ FeesIn(renewal, PaidOrLocked(renewal, allocated, u)) \in Nat
    BY <1>0, <1>1, <1>2, FeeLocked
  <2>2. Funds = wallet[u] + FeesIn(renewal, PaidOrLocked(renewal, allocated, u))
    BY <1>0, FeesPaidOnceIs
  <2>3. wallet'[u] = wallet[u] - (IF u = renewal[q].user THEN renewal[q].fee ELSE 0)
    BY <1>1, <1>2
  <2>4. wallet[u] \in Nat
    BY <1>2
  <2> QED
    BY <2>1, <2>2, <2>3, <2>4, <1>1, <1>3
<1> QED
  BY <1>1, <1>2, <1>4, <1>5, <1>6, FeesPaidOnceNext

LEMMA FeesPaidWhenUnlocked ==
  ASSUME LicensingInv, NEW q \in Renewals, Allocation_Withdraw(q)
  PROVE  FeesPaidOnce' /\ wallet' \in [Users -> 0 .. Funds] /\ allocated' \subseteq Created(renewal)
<1>0. TypeOK /\ IsFiniteSet(Created(renewal)) /\ FeesPaidOnce
  BY DEF LicensingInv
<1>1. /\ q \in allocated /\ allocated' = allocated \ {q}
      /\ wallet' = [wallet EXCEPT ![renewal[q].user] = @ + renewal[q].fee]
      /\ renewal' = renewal /\ income' = income
  BY DEF Allocation_Withdraw
<1>2. /\ allocated \subseteq Created(renewal) /\ q \in Created(renewal)
      /\ wallet \in [Users -> 0 .. Funds] /\ Funds \in Nat
  BY <1>0, <1>1, LicensingAssumption DEF TypeOK
<1>3. renewal[q].state # "completed"
  BY <1>0, <1>1, <1>2, FeesPaidOnceIs DEF CompletedIn
<1>4. CompletedIn(renewal') \cap allocated' = {} /\ income' = FeesIn(renewal', CompletedIn(renewal'))
  BY <1>0, <1>1, FeesPaidOnceIs
<1>5. ASSUME NEW u \in Users
      PROVE  /\ Funds = wallet'[u] + FeesIn(renewal', PaidOrLocked(renewal', allocated', u))
             /\ wallet'[u] \in 0 .. Funds
  <2>1. PICK rest : rest = allocated \ {q}
    OBVIOUS
  <2>2. allocated = rest \cup {q} /\ q \notin rest /\ rest \subseteq Created(renewal)
    BY <2>1, <1>1, <1>2
  <2>3. /\ FeesIn(renewal, PaidOrLocked(renewal, rest \cup {q}, u))
             = FeesIn(renewal, PaidOrLocked(renewal, rest, u))
                 + (IF u = renewal[q].user THEN renewal[q].fee ELSE 0)
        /\ FeesIn(renewal, PaidOrLocked(renewal, rest, u)) \in Nat /\ renewal[q].fee \in Nat
    BY <1>0, <1>2, <1>3, <2>2, FeeLocked
  <2>4. Funds = wallet[u] + FeesIn(renewal, PaidOrLocked(renewal, allocated, u))
    BY <1>0, FeesPaidOnceIs
  <2>5. wallet'[u] = wallet[u] + (IF u = renewal[q].user THEN renewal[q].fee ELSE 0)
    BY <1>1, <1>2
  <2>6. wallet[u] \in Nat
    BY <1>2
  <2>7. Funds = wallet'[u] + FeesIn(renewal, PaidOrLocked(renewal, rest, u)) /\ wallet'[u] \in Nat
    BY <2>2, <2>3, <2>4, <2>5, <2>6
  <2> QED
    BY <2>1, <2>3, <2>7, <1>1, <1>2
<1>6. wallet' \in [Users -> 0 .. Funds]
  <2>1. DOMAIN wallet' = Users /\ wallet' = [u \in Users |-> wallet'[u]]
    BY <1>1, <1>2
  <2> QED
    BY <2>1, <1>5
<1> QED
  BY <1>1, <1>2, <1>4, <1>5, <1>6, FeesPaidOnceNext

-----------------------------------------------------------------------------
(* Time *)

RenewedOf(r, l, root) == {q \in Created(r) : r[q].renews # 0 /\ l[r[q].renews].root = root}
TimeIn(r, S) == SumFunction([q \in S |-> r[q].extension])

LEMMA FeesBuyTimeIs ==
  FeesBuyTime <=>
    \A c \in Created(license) :
      IsOpen(license, c) => license[c].expiresAt
        >= license[c].issuedAt + TimeIn(renewal, RenewedOf(renewal, license, license[c].root))
BY DEF FeesBuyTime, TimePaid, RenewedThrough, RenewedOf, TimeIn

LEMMA FeesBuyTimeNext ==
  FeesBuyTime' <=>
    \A c \in Created(license') :
      IsOpen(license', c) => license'[c].expiresAt
        >= license'[c].issuedAt + TimeIn(renewal', RenewedOf(renewal', license', license'[c].root))
BY DEF FeesBuyTime, TimePaid, RenewedThrough, RenewedOf, TimeIn, IsOpen, Created

LEMMA TimeAlike ==
  ASSUME NEW r, NEW s, NEW S, IsFiniteSet(S), \A q \in S : s[q].extension = r[q].extension
  PROVE  TimeIn(s, S) = TimeIn(r, S)
<1> DEFINE f == [q \in S |-> r[q].extension]
           g == [q \in S |-> s[q].extension]
<1>1. DOMAIN f = S /\ DOMAIN g = S /\ \A q \in S : g[q] = f[q]
  OBVIOUS
<1> HIDE DEF f, g
<1>2. SumFunction(g) = SumFunction(f)
  BY <1>1, SumAlike
<1> QED
  BY <1>2 DEF TimeIn, f, g

LEMMA TimeGrows ==
  ASSUME NEW r, NEW S, IsFiniteSet(S), NEW q, q \notin S,
         \A p \in S \cup {q} : r[p].extension \in Nat
  PROVE  TimeIn(r, S \cup {q}) = TimeIn(r, S) + r[q].extension /\ TimeIn(r, S) \in Nat
<1> DEFINE f == [p \in S |-> r[p].extension]
           g == [p \in S \cup {q} |-> r[p].extension]
<1>1. /\ DOMAIN f = S /\ DOMAIN g = S \cup {q} /\ \A p \in S : g[p] = f[p] /\ f[p] \in Nat
      /\ g[q] \in Int /\ g[q] = r[q].extension
  OBVIOUS
<1> HIDE DEF f, g
<1>2. Ints(f, DOMAIN f)
  BY <1>1 DEF Ints
<1>3. SumFunction(g) = SumFunction(f) + g[q]
  BY <1>1, <1>2, SumGrows
<1>4. SumFunction(f) \in Nat
  BY <1>1, SumNat DEF SumFunction
<1> QED
  BY <1>1, <1>3, <1>4 DEF TimeIn, f, g

LEMMA NoTimePaid == ASSUME NEW r PROVE TimeIn(r, {}) = 0
<1> DEFINE f == [q \in {} |-> r[q].extension]
<1>1. DOMAIN f = {}
  OBVIOUS
<1> HIDE DEF f
<1>2. SumFunction(f) = 0
  BY <1>1, SumEmpty DEF SumFunction
<1> QED
  BY <1>2 DEF TimeIn, f

LEMMA TimeFinite ==
  ASSUME LicensingInv
  PROVE  /\ \A root : IsFiniteSet(RenewedOf(renewal, license, root))
         /\ \A root : RenewedOf(renewal, license, root) \subseteq Created(renewal)
         /\ \A q \in Created(renewal) : renewal[q].extension \in Nat
<1>1. \A root : RenewedOf(renewal, license, root) \subseteq Created(renewal)
  BY DEF RenewedOf
<1>2. \A q \in Created(renewal) : renewal[q].extension \in Nat
  BY LicensingAssumption DEF LicensingInv, TypeOK, Created, RenewalContract
<1> QED
  BY <1>1, <1>2, FS_Subset DEF LicensingInv

\* What was paid for a license stays the same when no renewal completes.
LEMMA TimeStays ==
  ASSUME LicensingInv,
         Created(renewal) \subseteq Created(renewal'),
         \A q \in Created(renewal) : /\ renewal'[q].renews = renewal[q].renews
                                     /\ renewal'[q].extension = renewal[q].extension,
         \A q \in Created(renewal') \ Created(renewal) : renewal'[q].renews = 0,
         \A c \in Created(license) : license'[c].root = license[c].root,
         NEW root
  PROVE  TimeIn(renewal', RenewedOf(renewal', license', root))
           = TimeIn(renewal, RenewedOf(renewal, license, root))
<1>1. \A q \in Created(renewal) : renewal[q].renews # 0 => renewal[q].renews \in Created(license)
  BY DEF LicensingInv, RenewalsRecorded
<1>2. RenewedOf(renewal', license', root) = RenewedOf(renewal, license, root)
  BY <1>1 DEF RenewedOf
<1>3. PICK S : S = RenewedOf(renewal, license, root)
  OBVIOUS
<1>4. IsFiniteSet(S) /\ \A q \in S : renewal'[q].extension = renewal[q].extension
  BY <1>3, TimeFinite
<1>5. TimeIn(renewal', S) = TimeIn(renewal, S)
  BY <1>4, TimeAlike
<1> QED
  BY <1>2, <1>3, <1>5

\* A license that is issued: no renewal is about it yet.
LEMMA IssuedUnpaid ==
  ASSUME LicensingInv, NEW i \in Installs, AppInstall_CreateLicense(i)
  PROVE  FeesBuyTime'
<1>0. TypeOK /\ FeesBuyTime /\ LicensesNumbered /\ RenewalsRecorded
  BY DEF LicensingInv
<1>1. PICK c \in Licenses :
        /\ c \notin Created(license) /\ Created(license') = Created(license) \cup {c}
        /\ \A d \in Created(license) : license'[d] = license[d]
        /\ license'[c].expiresAt = now /\ license'[c].issuedAt = now /\ license'[c].root = c
  BY <1>0, LicenseIssued
<1>2. renewal' = renewal
  BY DEF AppInstall_CreateLicense
<1>3. \A root : TimeIn(renewal', RenewedOf(renewal', license', root))
                 = TimeIn(renewal, RenewedOf(renewal, license, root))
  BY <1>1, <1>2, TimeStays
<1>4. RenewedOf(renewal, license, c) = {}
  BY <1>0, <1>1 DEF RenewedOf, RenewalsRecorded, LicensesNumbered
<1>5. TimeIn(renewal', RenewedOf(renewal', license', license'[c].root)) = 0
  BY <1>1, <1>3, <1>4, NoTimePaid
<1>6. now \in Nat
  BY <1>0, LicensingAssumption DEF TypeOK
<1>7. license'[c].expiresAt
        >= license'[c].issuedAt + TimeIn(renewal', RenewedOf(renewal', license', license'[c].root))
  BY <1>1, <1>5, <1>6
<1>8. ASSUME NEW d \in Created(license), IsOpen(license', d)
      PROVE  license'[d].expiresAt
        >= license'[d].issuedAt + TimeIn(renewal', RenewedOf(renewal', license', license'[d].root))
  <2>1. IsOpen(license, d)
    BY <1>1, <1>8 DEF IsOpen
  <2> QED
    BY <2>1, <1>0, <1>1, <1>3, FeesBuyTimeIs
<1> QED
  BY <1>1, <1>7, <1>8, FeesBuyTimeNext

\* Nothing is issued and no renewal completes.
LEMMA TimeKept ==
  ASSUME LicensingInv,
         Created(renewal) \subseteq Created(renewal'),
         \A q \in Created(renewal) : /\ renewal'[q].renews = renewal[q].renews
                                     /\ renewal'[q].extension = renewal[q].extension,
         \A q \in Created(renewal') \ Created(renewal) : renewal'[q].renews = 0,
         Created(license') = Created(license),
         \A c \in Created(license) : /\ license'[c].root = license[c].root
                                     /\ license'[c] = license[c] \/ license'[c].state # "open"
  PROVE  FeesBuyTime'
<1>1. \A root : TimeIn(renewal', RenewedOf(renewal', license', root))
                 = TimeIn(renewal, RenewedOf(renewal, license, root))
  <2>1. \A c \in Created(license) : license'[c].root = license[c].root
    OBVIOUS
  <2> QED
    BY <2>1, TimeStays, Zenon
<1>2. \A c \in Created(license) : IsOpen(license', c) => /\ license'[c] = license[c]
                                                         /\ IsOpen(license, c)
  BY DEF IsOpen
<1>3. \A c \in Created(license) :
        IsOpen(license, c) => license[c].expiresAt
          >= license[c].issuedAt + TimeIn(renewal, RenewedOf(renewal, license, license[c].root))
  BY FeesBuyTimeIs DEF LicensingInv
<1> QED
  BY <1>1, <1>2, <1>3, FeesBuyTimeNext

\* A renewal completes: the license grows by what was paid for.
LEMMA TimeBought ==
  ASSUME LicensingInv, NEW q \in Renewals, NEW c \in Licenses,
         LicenseRenewalRequest_CompleteRenewal(q, c)
  PROVE  FeesBuyTime'
<1>0. TypeOK /\ FeesBuyTime /\ LicensesNumbered /\ RenewalsRecorded
  BY DEF LicensingInv
<1>1. /\ Created(renewal') = Created(renewal) /\ q \in Created(renewal)
      /\ renewal[q].state = "open" /\ renewal'[q].renews = c
      /\ renewal'[q].extension = renewal[q].extension
      /\ \A r \in Created(renewal) \ {q} : renewal'[r] = renewal[r]
  BY RenewalCompleted
<1>2. PICK next \in Licenses :
        /\ next \notin Created(license) /\ Created(license') = Created(license) \cup {next}
        /\ \A d \in Created(license) \ {c} : license'[d] = license[d]
        /\ c \in Created(license) /\ license[c].state = "open" /\ license'[c].state = "renewed"
        /\ \A d \in {c, next} : /\ license'[d].root = license[c].root
                                /\ license'[d].issuedAt = license[c].issuedAt
        /\ license'[next].expiresAt >= license[c].expiresAt + renewal[q].extension
        /\ license[c].expiresAt \in Nat /\ license[c].issuedAt \in Nat
        /\ license'[next].expiresAt \in Nat /\ renewal[q].extension \in Nat
  BY <1>0, LicenseRenewed
<1>3. renewal[q].renews = 0 /\ IsOpen(license, c)
  BY <1>0, <1>1, <1>2 DEF RenewalsRecorded, IsOpen
<1>4. \A r \in Created(renewal) : renewal[r].renews # 0 => renewal[r].renews \in Created(license)
  BY <1>0 DEF RenewalsRecorded
<1>5. PICK root : root = license[c].root
  OBVIOUS
<1>6. \A d \in Created(license) : license'[d].root = license[d].root
  BY <1>2
<1>7. \A other : other # root => RenewedOf(renewal', license', other)
                                 = RenewedOf(renewal, license, other)
  BY <1>1, <1>2, <1>3, <1>4, <1>5, <1>6 DEF RenewedOf
<1>8. \A S \in SUBSET Created(renewal) :
        IsFiniteSet(S) => TimeIn(renewal', S) = TimeIn(renewal, S)
  BY <1>1, TimeAlike
<1>9. \A d \in Created(license) :
        IsOpen(license, d) => license[d].expiresAt
          >= license[d].issuedAt + TimeIn(renewal, RenewedOf(renewal, license, license[d].root))
  BY <1>0, FeesBuyTimeIs
<1>10. PICK paid : paid = RenewedOf(renewal, license, root)
  OBVIOUS
<1>11. /\ IsFiniteSet(paid) /\ paid \subseteq Created(renewal) /\ q \notin paid
       /\ TimeIn(renewal, paid) \in Nat
       /\ TimeIn(renewal, paid \cup {q}) = TimeIn(renewal, paid) + renewal[q].extension
  <2>1. /\ IsFiniteSet(paid) /\ paid \subseteq Created(renewal)
        /\ \A p \in paid \cup {q} : renewal[p].extension \in Nat
    BY <1>10, <1>1, TimeFinite
  <2>2. q \notin paid
    BY <1>3, <1>10 DEF RenewedOf
  <2> QED
    BY <2>1, <2>2, TimeGrows
<1>12. TimeIn(renewal', RenewedOf(renewal', license', root))
         <= TimeIn(renewal, paid) + renewal[q].extension
  <2>1. CASE c = 0
    <3>1. RenewedOf(renewal', license', root) = paid
      BY <1>1, <1>3, <1>4, <1>6, <1>10, <2>1 DEF RenewedOf
    <3>2. TimeIn(renewal', paid) = TimeIn(renewal, paid)
      BY <1>8, <1>11
    <3> QED
      BY <3>1, <3>2, <1>2, <1>11
  <2>2. CASE c # 0
    <3>1. RenewedOf(renewal', license', root) = paid \cup {q}
      BY <1>1, <1>2, <1>3, <1>4, <1>5, <1>6, <1>10, <2>2 DEF RenewedOf
    <3>2. IsFiniteSet(paid \cup {q}) /\ paid \cup {q} \subseteq Created(renewal)
      BY <1>1, <1>11, FS_AddElement
    <3>3. TimeIn(renewal', paid \cup {q}) = TimeIn(renewal, paid \cup {q})
      BY <1>8, <3>2
    <3> QED
      BY <3>1, <3>3, <1>2, <1>11
  <2> QED
    BY <2>1, <2>2
<1>13. TimeIn(renewal', RenewedOf(renewal', license', root)) \in Nat
  <2>1. PICK S : S = RenewedOf(renewal', license', root)
    OBVIOUS
  <2>2. S \subseteq Created(renewal) /\ IsFiniteSet(S)
    BY <2>1, <1>1, FS_Subset DEF RenewedOf, LicensingInv
  <2>3. \A p \in S : renewal[p].extension \in Nat
    BY <2>2, TimeFinite
  <2>4. TimeIn(renewal, S) \in Nat
    <3> DEFINE f == [p \in S |-> renewal[p].extension]
    <3>1. DOMAIN f = S /\ \A p \in S : f[p] \in Nat
      BY <2>3
    <3> HIDE DEF f
    <3>2. SumFunction(f) \in Nat
      BY <2>2, <3>1, SumNat DEF SumFunction
    <3> QED
      BY <3>2 DEF TimeIn, f
  <2> QED
    BY <2>1, <2>2, <2>4, <1>8
<1>14. license'[next].expiresAt
         >= license'[next].issuedAt
              + TimeIn(renewal', RenewedOf(renewal', license', license'[next].root))
  <2>1. license[c].expiresAt >= license[c].issuedAt + TimeIn(renewal, paid)
    BY <1>2, <1>3, <1>5, <1>9, <1>10
  <2>2. license'[next].root = root /\ license'[next].issuedAt = license[c].issuedAt
    BY <1>2, <1>5
  <2> QED
    BY <2>1, <2>2, <1>2, <1>11, <1>12, <1>13
<1>15. ASSUME NEW d \in Created(license), IsOpen(license', d)
       PROVE  license'[d].expiresAt
         >= license'[d].issuedAt + TimeIn(renewal', RenewedOf(renewal', license', license'[d].root))
  <2>1. d # c /\ license'[d] = license[d] /\ IsOpen(license, d)
    BY <1>2, <1>15 DEF IsOpen
  <2>2. license[d].root # root
    BY <2>1, <1>0, <1>2, <1>3, <1>5 DEF LicensesNumbered
  <2>3. PICK S : S = RenewedOf(renewal, license, license[d].root)
    OBVIOUS
  <2>4. /\ IsFiniteSet(S) /\ S \subseteq Created(renewal)
        /\ RenewedOf(renewal', license', license'[d].root) = S
    BY <2>1, <2>2, <2>3, <1>7, TimeFinite
  <2> QED
    BY <2>1, <2>3, <2>4, <1>8, <1>9
<1> QED
  BY <1>2, <1>14, <1>15, FeesBuyTimeNext

-----------------------------------------------------------------------------
(* Every step keeps the invariant *)

LEMMA LicensingInitial == ASSUME Init PROVE LicensingInv
<1>1. TypeOK
  <2>1. now \in 0 .. MaxTime /\ wallet \in [Users -> 0 .. Funds] /\ income \in Nat
    BY LicensingAssumption DEF Init
  <2>2. /\ wish    \in [Wishes   -> WishContract    \cup {NoContract}]
        /\ install \in [Installs -> InstallContract \cup {NoContract}]
        /\ license \in [Licenses -> LicenseContract \cup {NoContract}]
        /\ renewal \in [Renewals -> RenewalContract \cup {NoContract}]
    BY DEF Init
  <2>3. allocated \subseteq Created(renewal) /\ overlapped \in BOOLEAN
    BY DEF Init
  <2> QED
    BY <2>1, <2>2, <2>3 DEF TypeOK
<1>2. Created(install) = {} /\ Created(license) = {} /\ Created(renewal) = {}
  BY DEF Init, Created
<1>3. IsFiniteSet(Created(renewal))
  BY <1>2, FS_EmptySet
<1>4. LicensesNumbered /\ RenewalsRecorded /\ FeesBuyTime
  BY <1>2 DEF LicensesNumbered, RenewalsRecorded, FeesBuyTime
<1>5. FeesPaidOnce
  <2>1. \A u \in Users : PaidOrLocked(renewal, allocated, u) = {}
    BY <1>2 DEF Init, PaidOrLocked, CompletedIn
  <2>2. CompletedIn(renewal) = {}
    BY <1>2 DEF CompletedIn
  <2>3. FeesIn(renewal, {}) = 0
    <3> DEFINE f == [q \in {} |-> renewal[q].fee]
    <3>1. DOMAIN f = {}
      OBVIOUS
    <3> HIDE DEF f
    <3>2. SumFunction(f) = 0
      BY <3>1, SumEmpty DEF SumFunction
    <3> QED
      BY <3>2 DEF FeesIn, f
  <2>4. income = 0 /\ allocated = {} /\ \A u \in Users : wallet[u] = Funds
    BY DEF Init
  <2> QED
    BY <2>1, <2>2, <2>3, <2>4, FeesPaidOnceIs, LicensingAssumption
<1> QED
  BY <1>1, <1>3, <1>4, <1>5 DEF LicensingInv

\* What the steps that leave renewals and their payment alone keep.
LEMMA RenewalsKept ==
  ASSUME LicensingInv, renewal' = renewal, feeVars' = feeVars,
         Created(license) \subseteq Created(license')
  PROVE  /\ IsFiniteSet(Created(renewal')) /\ FeesPaidOnce' /\ RenewalsRecorded'
         /\ renewal' \in [Renewals -> RenewalContract \cup {NoContract}]
         /\ allocated' \subseteq Created(renewal') /\ wallet' \in [Users -> 0 .. Funds]
         /\ income' \in Nat
<1>1. allocated' = allocated /\ wallet' = wallet /\ income' = income
  BY DEF feeVars
<1>2. FeesPaidOnce'
  BY <1>1, FeesPaidOnceIs, FeesPaidOnceNext DEF LicensingInv
<1> QED
  BY <1>1, <1>2 DEF LicensingInv, RenewalsRecorded, TypeOK

LEMMA TickStep ==
  ASSUME LicensingInv, Tick PROVE LicensingInv'
<1>1. /\ renewal' = renewal /\ feeVars' = feeVars /\ license' = license /\ install' = install
      /\ wish' = wish /\ overlapped' = overlapped /\ now' \in 0 .. MaxTime
  BY LicensingAssumption DEF Tick, installVars, LicensingInv, TypeOK
<1>2. FeesBuyTime'
  BY <1>1, TimeKept
<1>3. LicensesNumbered'
  BY LicensesStayNumbered DEF Next
<1> QED
  BY <1>1, <1>2, <1>3, RenewalsKept DEF LicensingInv, TypeOK

LEMMA InstallationStep ==
  ASSUME LicensingInv, Installation PROVE LicensingInv'
<1>0. TypeOK /\ wish \in [Wishes -> WishContract \cup {NoContract}] /\ overlapped \in BOOLEAN
  BY DEF LicensingInv, TypeOK
<1>1. now' = now /\ renewal' = renewal /\ feeVars' = feeVars
  BY DEF Installation, CreateAppInstallRequest, AppInstallRequest_Accept,
         AppInstallRequest_Reject, AppInstall_CreateLicense, AppInstall_Cancel
<1>2. LicensesNumbered'
  BY LicensesStayNumbered DEF Next
<1>3. ASSUME license' = license
      PROVE  /\ FeesBuyTime' /\ Created(license) \subseteq Created(license')
             /\ license' \in [Licenses -> LicenseContract \cup {NoContract}]
  BY <1>0, <1>1, <1>3, TimeKept DEF TypeOK
<1>4. ASSUME wish' \in [Wishes -> WishContract \cup {NoContract}], overlapped' \in BOOLEAN,
             install' \in [Installs -> InstallContract \cup {NoContract}],
             license' \in [Licenses -> LicenseContract \cup {NoContract}],
             Created(license) \subseteq Created(license'), FeesBuyTime'
      PROVE  LicensingInv'
  <2>1. now' \in 0 .. MaxTime
    BY <1>0, <1>1 DEF TypeOK
  <2> QED
    BY <2>1, <1>1, <1>2, <1>4, RenewalsKept DEF LicensingInv, TypeOK
<1>5. ASSUME NEW w \in Wishes, NEW how \in {"accepted", "rejected"}, wish' = Archive(wish, w, how),
             IsOpen(wish, w)
      PROVE  wish' \in [Wishes -> WishContract \cup {NoContract}]
  <2>1. wish[w] \in WishContract
    BY <1>0, <1>5 DEF IsOpen, Created
  <2>2. PICK gone \in WishContract : gone = [wish[w] EXCEPT !.state = how]
    BY <2>1 DEF WishContract
  <2>3. wish' = [wish EXCEPT ![w] = gone]
    BY <1>0, <1>5, <2>2 DEF Archive
  <2> QED
    BY <1>0, <2>3
<1>6. ASSUME NEW u \in Users, CreateAppInstallRequest(u) PROVE LicensingInv'
  <2>1. [user |-> u, state |-> "open"] \in WishContract
    BY DEF WishContract
  <2>2. wish' \in [Wishes -> WishContract \cup {NoContract}]
    BY <2>1, <1>0, <1>6 DEF CreateAppInstallRequest, Fresh
  <2>3. install' = install /\ license' = license /\ overlapped' = overlapped
    BY <1>6 DEF CreateAppInstallRequest
  <2> QED
    BY <2>2, <2>3, <1>0, <1>3, <1>4 DEF TypeOK
<1>7. ASSUME NEW w \in Wishes, AppInstallRequest_Accept(w) PROVE LicensingInv'
  <2>1. wish' \in [Wishes -> WishContract \cup {NoContract}]
    BY <1>5, <1>7 DEF AppInstallRequest_Accept
  <2>2. install' \in [Installs -> InstallContract \cup {NoContract}]
    BY <1>0, <1>7, InstallAccepted
  <2>3. license' = license /\ overlapped' \in BOOLEAN
    BY <1>0, <1>7 DEF AppInstallRequest_Accept
  <2> QED
    BY <2>1, <2>2, <2>3, <1>3, <1>4
<1>8. ASSUME NEW w \in Wishes, AppInstallRequest_Reject(w) PROVE LicensingInv'
  <2>1. wish' \in [Wishes -> WishContract \cup {NoContract}]
    BY <1>5, <1>8 DEF AppInstallRequest_Reject
  <2>2. install' = install /\ license' = license /\ overlapped' = overlapped
    BY <1>8 DEF AppInstallRequest_Reject
  <2> QED
    BY <2>1, <2>2, <1>0, <1>3, <1>4 DEF TypeOK
<1>9. ASSUME NEW i \in Installs, AppInstall_CreateLicense(i) PROVE LicensingInv'
  <2>1. wish' = wish /\ overlapped' = overlapped
    BY <1>9 DEF AppInstall_CreateLicense
  <2>2. /\ install' \in [Installs -> InstallContract \cup {NoContract}]
        /\ license' \in [Licenses -> LicenseContract \cup {NoContract}]
        /\ Created(license) \subseteq Created(license')
    BY <1>0, <1>9, LicenseIssued
  <2>3. FeesBuyTime'
    BY <1>9, IssuedUnpaid
  <2> QED
    BY <2>1, <2>2, <2>3, <1>0, <1>4
<1>10. ASSUME NEW i \in Installs, AppInstall_Cancel(i) PROVE LicensingInv'
  <2>1. wish' = wish /\ overlapped' = overlapped /\ license' = license
    BY <1>10 DEF AppInstall_Cancel
  <2>2. install' \in [Installs -> InstallContract \cup {NoContract}]
    BY <1>0, <1>10, InstallCancelled
  <2> QED
    BY <2>1, <2>2, <1>0, <1>3, <1>4
<1> QED
  BY <1>6, <1>7, <1>8, <1>9, <1>10 DEF Installation

\* A step that changes one renewal request, and no license.
LEMMA RequestsChange ==
  ASSUME LicensingInv, now' = now, installVars' = installVars, license' = license,
         allocated' = allocated, wallet' = wallet, income' = income,
         renewal' \in [Renewals -> RenewalContract \cup {NoContract}],
         NEW more, IsFiniteSet(more), Created(renewal') = Created(renewal) \cup more,
         more \cap Created(renewal) = {},
         \A q \in more : renewal'[q].renews = 0 /\ renewal'[q].state = "open",
         \A q \in Created(renewal) :
           \/ renewal'[q] = renewal[q]
           \/ /\ renewal[q].state # "completed" /\ renewal'[q].state # "completed"
              /\ renewal'[q].renews = renewal[q].renews
              /\ renewal'[q].extension = renewal[q].extension
              /\ renewal'[q].fee = renewal[q].fee /\ renewal'[q].user = renewal[q].user
  PROVE  LicensingInv'
<1>0. TypeOK
  BY DEF LicensingInv
<1>1. install' = install /\ wish' = wish /\ overlapped' = overlapped
  BY DEF installVars
<1>2. FeesPaidOnce'
  <2>1. CompletedIn(renewal') = CompletedIn(renewal)
    BY DEF CompletedIn
  <2>2. \A q \in Created(renewal) : /\ renewal'[q].fee = renewal[q].fee
                                    /\ renewal'[q].user = renewal[q].user
    OBVIOUS
  <2>3. Created(renewal) \subseteq Created(renewal')
    OBVIOUS
  <2> QED
    BY <2>1, <2>2, <2>3, FeesStay
<1>3. FeesBuyTime'
  <2>1. \A q \in Created(renewal) : /\ renewal'[q].renews = renewal[q].renews
                                    /\ renewal'[q].extension = renewal[q].extension
    OBVIOUS
  <2>2. /\ Created(renewal) \subseteq Created(renewal')
        /\ \A q \in Created(renewal') \ Created(renewal) : renewal'[q].renews = 0
        /\ Created(license') = Created(license)
        /\ \A c \in Created(license) : /\ license'[c].root = license[c].root
                                       /\ license'[c] = license[c] \/ license'[c].state # "open"
    OBVIOUS
  <2> QED
    BY <2>1, <2>2, TimeKept
<1>4. RenewalsRecorded'
  BY DEF LicensingInv, RenewalsRecorded
<1>5. IsFiniteSet(Created(renewal'))
  <2>1. IsFiniteSet(Created(renewal))
    BY DEF LicensingInv
  <2>2. IsFiniteSet(Created(renewal) \cup more)
    BY <2>1, FS_Union
  <2> QED
    BY <2>2
<1>6. LicensesNumbered'
  BY <1>1 DEF LicensingInv, LicensesNumbered, IsOpen
<1>7. TypeOK'
  BY <1>0, <1>1 DEF TypeOK
<1> QED
  BY <1>2, <1>3, <1>4, <1>5, <1>6, <1>7 DEF LicensingInv

\* A step on the payment of the renewals alone.
LEMMA PaymentsChange ==
  ASSUME LicensingInv, now' = now, installVars' = installVars, license' = license,
         renewal' = renewal, income' = income, FeesPaidOnce',
         wallet' \in [Users -> 0 .. Funds], allocated' \subseteq Created(renewal)
  PROVE  LicensingInv'
<1>0. TypeOK
  BY DEF LicensingInv
<1>1. install' = install /\ wish' = wish /\ overlapped' = overlapped
  BY DEF installVars
<1>2. FeesBuyTime'
  BY TimeKept
<1>3. LicensesNumbered' /\ RenewalsRecorded' /\ IsFiniteSet(Created(renewal'))
  BY <1>1 DEF LicensingInv, LicensesNumbered, RenewalsRecorded, IsOpen
<1>4. TypeOK'
  BY <1>0, <1>1 DEF TypeOK
<1> QED
  BY <1>2, <1>3, <1>4 DEF LicensingInv

LEMMA RenewalStep ==
  ASSUME LicensingInv, NEW q \in Renewals, NEW c \in Licenses,
         LicenseRenewalRequest_CompleteRenewal(q, c)
  PROVE  LicensingInv'
<1>0. TypeOK /\ RenewalsRecorded
  BY DEF LicensingInv
<1>1. /\ now' = now /\ install' = install /\ wish' = wish /\ overlapped' = overlapped
      /\ wallet' = wallet /\ allocated' = allocated \ {q} /\ income' = income + renewal[q].fee
  BY DEF LicenseRenewalRequest_CompleteRenewal, installVars
<1>2. /\ renewal' \in [Renewals -> RenewalContract \cup {NoContract}]
      /\ Created(renewal') = Created(renewal) /\ q \in Created(renewal)
      /\ renewal'[q].state = "completed" /\ renewal'[q].renews = c
      /\ \A r \in Created(renewal) \ {q} : renewal'[r] = renewal[r]
  BY RenewalCompleted
<1>3. PICK next \in Licenses :
        /\ Created(license') = Created(license) \cup {next} /\ c \in Created(license)
        /\ license' \in [Licenses -> LicenseContract \cup {NoContract}]
  BY <1>0, LicenseRenewed
<1>4. FeesPaidOnce'
  BY FeePaid
<1>5. FeesBuyTime'
  BY TimeBought
<1>6. LicensesNumbered'
  BY LicensesStayNumbered DEF Next, Renewing
<1>7. RenewalsRecorded'
  BY <1>0, <1>2, <1>3 DEF RenewalsRecorded
<1>8. renewal[q].fee \in Nat
  BY <1>0, <1>2, FeesFinite DEF LicensingInv
<1>9. TypeOK'
  BY <1>0, <1>1, <1>2, <1>3, <1>8 DEF TypeOK
<1>10. IsFiniteSet(Created(renewal'))
  BY <1>2 DEF LicensingInv
<1> QED
  BY <1>4, <1>5, <1>6, <1>7, <1>9, <1>10 DEF LicensingInv

LEMMA RenewingStep ==
  ASSUME LicensingInv, Renewing PROVE LicensingInv'
<1>0. TypeOK
  BY DEF LicensingInv
<1>1. ASSUME NEW c \in Licenses, NEW fee \in Fees, NEW extension \in Extensions,
             NEW w \in Windows, License_Renew(c, fee, extension, w)
      PROVE  LicensingInv'
  <2>1. /\ now' = now /\ installVars' = installVars /\ license' = license
        /\ allocated' = allocated /\ wallet' = wallet /\ income' = income
    BY <1>1 DEF License_Renew, feeVars, installVars
  <2>2. PICK q \in Renewals :
          /\ q \notin Created(renewal) /\ Created(renewal') = Created(renewal) \cup {q}
          /\ renewal' \in [Renewals -> RenewalContract \cup {NoContract}]
          /\ \A r \in Created(renewal) : renewal'[r] = renewal[r]
          /\ renewal'[q].state = "open" /\ renewal'[q].renews = 0
    BY <1>0, <1>1, RenewalAsked
  <2>3. PICK more : more = {q}
    OBVIOUS
  <2>4. IsFiniteSet(more)
    BY <2>3, FS_Singleton
  <2> QED
    BY <2>1, <2>2, <2>3, <2>4, RequestsChange
<1>2. ASSUME NEW c \in Licenses, License_Expire(c) PROVE LicensingInv'
  <2>1. /\ now' = now /\ install' = install /\ wish' = wish /\ overlapped' = overlapped
        /\ renewal' = renewal /\ feeVars' = feeVars
    BY <1>2 DEF License_Expire, installVars
  <2>2. /\ license' \in [Licenses -> LicenseContract \cup {NoContract}]
        /\ Created(license') = Created(license) /\ c \in Created(license)
        /\ license'[c].state = "expired" /\ license'[c].root = license[c].root
        /\ \A d \in Created(license) \ {c} : license'[d] = license[d]
    BY <1>0, <1>2, LicenseExpired
  <2>3. FeesBuyTime'
    <3>1. \A d \in Created(license) : /\ license'[d].root = license[d].root
                                      /\ license'[d] = license[d] \/ license'[d].state # "open"
      BY <2>2
    <3> QED
      BY <2>1, <2>2, <3>1, TimeKept
  <2>4. LicensesNumbered'
    BY <1>2, LicensesStayNumbered DEF Next, Renewing
  <2> QED
    BY <2>1, <2>2, <2>3, <2>4, <1>0, RenewalsKept DEF LicensingInv, TypeOK
<1>3. ASSUME NEW q \in Renewals, NEW c \in Licenses,
             LicenseRenewalRequest_CompleteRenewal(q, c)
      PROVE  LicensingInv'
  BY <1>3, RenewalStep
<1>4. ASSUME NEW q \in Renewals, DropRenewalRequest(q) PROVE LicensingInv'
  <2>1. /\ now' = now /\ installVars' = installVars /\ license' = license
        /\ allocated' = allocated /\ wallet' = wallet /\ income' = income
    BY <1>4 DEF DropRenewalRequest, feeVars, installVars
  <2>2. PICK more : more = {}
    OBVIOUS
  <2>3. /\ IsFiniteSet(more) /\ more \cap Created(renewal) = {}
        /\ \A r \in more : renewal'[r].renews = 0 /\ renewal'[r].state = "open"
    BY <2>2, FS_EmptySet
  <2>4. /\ Created(renewal') = Created(renewal) \cup more
        /\ renewal' \in [Renewals -> RenewalContract \cup {NoContract}]
        /\ \A r \in Created(renewal) :
             \/ renewal'[r] = renewal[r]
             \/ /\ renewal[r].state # "completed" /\ renewal'[r].state # "completed"
                /\ renewal'[r].renews = renewal[r].renews
                /\ renewal'[r].extension = renewal[r].extension
                /\ renewal'[r].fee = renewal[r].fee /\ renewal'[r].user = renewal[r].user
    BY <1>4, <2>2, RenewalDropped
  <2> QED
    BY <2>1, <2>3, <2>4, RequestsChange
<1>5. ASSUME NEW q \in Renewals, Allocate(q) PROVE LicensingInv'
  <2>1. /\ now' = now /\ installVars' = installVars /\ license' = license
        /\ renewal' = renewal /\ income' = income
    BY <1>5 DEF Allocate, installVars
  <2> QED
    BY <2>1, <1>5, FeesPaidWhenLocked, PaymentsChange
<1>6. ASSUME NEW q \in Renewals, Allocation_Withdraw(q) PROVE LicensingInv'
  <2>1. /\ now' = now /\ installVars' = installVars /\ license' = license
        /\ renewal' = renewal /\ income' = income
    BY <1>6 DEF Allocation_Withdraw, installVars
  <2> QED
    BY <2>1, <1>6, FeesPaidWhenUnlocked, PaymentsChange
<1> QED
  BY <1>1, <1>2, <1>3, <1>4, <1>5, <1>6 DEF Renewing

LEMMA LicensingStuttering ==
  ASSUME LicensingInv, UNCHANGED vars PROVE LicensingInv'
<1>1. /\ now' = now /\ installVars' = installVars /\ license' = license
      /\ renewal' = renewal /\ income' = income /\ allocated' = allocated /\ wallet' = wallet
  BY DEF vars, installVars
<1>2. FeesPaidOnce'
  BY <1>1, FeesPaidOnceIs, FeesPaidOnceNext DEF LicensingInv
<1>3. wallet' \in [Users -> 0 .. Funds] /\ allocated' \subseteq Created(renewal)
  BY <1>1 DEF LicensingInv, TypeOK
<1> QED
  BY <1>1, <1>2, <1>3, PaymentsChange

LEMMA LicensingInductive == Spec => []LicensingInv
<1>1. LicensingInv /\ [Next]_vars => LicensingInv'
  BY TickStep, InstallationStep, RenewingStep, LicensingStuttering DEF Next
<1> QED
  BY <1>1, LicensingInitial, PTL DEF Spec

-----------------------------------------------------------------------------
(* Theorems *)

\* The licensing contracts and the fees have their types at all times: no wallet goes
\* below zero or above what it started with, and only requests that were made are paid.
THEOREM LicensingTypeCorrect == Spec => []TypeOK
<1>1. LicensingInv => TypeOK
  BY DEF LicensingInv
<1> QED
  BY <1>1, LicensingInductive, PTL

\* Two active licenses that were issued through one installation never have the same
\* number, however often the installation was replaced and the licenses renewed
\* (AppInstall_CreateLicense, LicenseRenewalRequest_CompleteRenewal).
THEOREM NumbersAlwaysUnique == Spec => []NumbersUniqueInInstall
<1>1. LicensingInv => NumbersUniqueInInstall
  BY DEF LicensingInv, LicensesNumbered, NumbersUniqueInInstall
<1> QED
  BY <1>1, LicensingInductive, PTL

\* The provider receives the fee of each completed renewal once, and a user's holdings
\* are what is left, what is locked and what was paid.
THEOREM FeesAlwaysPaidOnce == Spec => []FeesPaidOnce
<1>1. LicensingInv => FeesPaidOnce
  BY DEF LicensingInv
<1> QED
  BY <1>1, LicensingInductive, PTL

\* An active license lasts at least as long as all the renewals paid for on it together.
THEOREM FeesAlwaysBuyTime == Spec => []FeesBuyTime
<1>1. LicensingInv => FeesBuyTime
  BY DEF LicensingInv
<1> QED
  BY <1>1, LicensingInductive, PTL
=============================================================================
