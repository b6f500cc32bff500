------------------------- MODULE ControlLoopProofs -------------------------
(***************************************************************************)
(* No outage of GitHub or of the folder API takes a unit or a grant away,  *)
(* for any units, folders, commits and any number of faults.               *)
(***************************************************************************)
EXTENDS ControlLoop, TLAPS

\* What the folder cache would answer about every folder.
Known == Routes(Unit, Folder, Answers(cache))

\* A route to a loaded unit is still declared, is in the cache, and its unit
\* is loaded.
KeptInv == kept \subseteq Declared \cap Known /\ Ends(kept) \subseteq units

\* A grant in effect is still committed, is in the cache, and is in effect
\* under the rules and the memberships that the store holds now.
FirmInv == firm \subseteq Committed \cap Known \cap Grants(store, members)

\* The grants a bulk sync began with are in effect, and are among those of
\* the rules it has, with the memberships it has or is about to take.
BatchInv ==
  /\ batch.firm \subseteq firm
  /\ batch.at = "config" => batch.firm \subseteq Grants(batch.store, members)
  /\ batch.at = "run" => batch.firm \subseteq Grants(batch.store, batch.members)

\* Nothing is loaded before startup.
OffInv == pc = "off" => kept = {} /\ firm = {} /\ batch.firm = {}

ControlInv == TypeOK /\ KeptInv /\ FirmInv /\ BatchInv /\ OffInv

-----------------------------------------------------------------------------
\* The parts of a route.
LEMMA RouteParts ==
  \A r \in Route : r[1] \in Unit /\ r[2] \in Folder \cup {Direct}
  BY DEF Route

\* A unit is an end of each of its routes.
LEMMA EndsOf == \A R, S : R \subseteq S => Ends(R) \subseteq Ends(S)
  BY DEF Ends

\* The ends of routes are units.
LEMMA EndsType == \A ps, F, m : Ends(Routes(ps, F, m)) \in Projects
  BY RouteParts DEF Ends, Routes, Projects

\* What the resolver may do to the cache.
LEMMA ResolveType ==
  ASSUME TypeOK, NEW F \in SUBSET Folder, Resolve(F)
  PROVE  /\ cache' \in [Folder -> [projects : {Unknown} \cup Projects, fresh : BOOLEAN]]
         /\ faults' \in 0..MaxFaults
<1>1. PICK down \in SUBSET F : /\ cache' = Fetched(F, down)
                               /\ IF down = {} THEN UNCHANGED faults ELSE Fault
  BY DEF Resolve
<1>2. \A f \in Folder : cache[f] \in [projects : {Unknown} \cup Projects, fresh : BOOLEAN]
  BY DEF TypeOK
<1>3. \A f \in Folder : [projects |-> under[f], fresh |-> TRUE]
                          \in [projects : {Unknown} \cup Projects, fresh : BOOLEAN]
  BY DEF TypeOK
<1> QED
  BY <1>1, <1>2, <1>3, ControlAssumption DEF TypeOK, Fetched, Fault

\* An answer of the cache is replaced by the truth or not at all: a route
\* that is both true and known stays known.
LEMMA ResolveKnown ==
  ASSUME TypeOK, NEW F \in SUBSET Folder, Resolve(F),
         NEW r \in Known, NEW ps, NEW G, r \in Routes(ps, G, under)
  PROVE  r \in Known'
<1>1. PICK down \in SUBSET F : cache' = Fetched(F, down)
  BY DEF Resolve
<1>2. CASE r[2] = Direct
  BY <1>2 DEF Known, Routes
<1>3. CASE r[2] # Direct
  <2>1. r \in Route /\ r[2] \in Folder /\ r[1] \in Unit
    BY <1>3, RouteParts DEF Known, Routes
  <2>2. cache[r[2]].projects # Unknown /\ r[1] \in cache[r[2]].projects
    BY <1>3, <2>1 DEF Known, Routes, Answers
  <2>3. under[r[2]] # Unknown /\ r[1] \in under[r[2]]
    BY <1>3, <2>1 DEF Routes
  <2>4. cache'[r[2]].projects \in {cache[r[2]].projects, under[r[2]]}
    BY <1>1, <2>1 DEF Fetched
  <2>5. Answers(cache)'[r[2]] # Unknown /\ r[1] \in Answers(cache)'[r[2]]
    BY <2>1, <2>2, <2>3, <2>4 DEF Answers
  <2> QED
    BY <1>3, <2>1, <2>5 DEF Known, Routes
<1> QED
  BY <1>2, <1>3

\* A declared route that the cache knows is found by a reload.
LEMMA ReloadFinds ==
  ASSUME kept \subseteq Declared, kept \subseteq Known', UNCHANGED <<conf, under>>
  PROVE  kept \subseteq Routes(conf.units, conf.folders, Answers(cache'))
  BY DEF Declared, Known, Routes

\* Whatever a reload or a store takes from the cache is known.
LEMMA TakenIsKnown ==
  ASSUME NEW ps \in SUBSET Unit, NEW F \in SUBSET Folder, NEW c, NEW m,
         \A f \in Folder : m[f] = Unknown \/ m[f] = Answers(c)[f]
  PROVE  Routes(ps, F, m) \subseteq Routes(Unit, Folder, Answers(c))
  BY RouteParts DEF Routes

-----------------------------------------------------------------------------
\* The histories after a step that loads the routes of R and the grants of G.
LEMMA LoadStep ==
  ASSUME ControlInv, UNCHANGED world,
         UNCHANGED cache \/ \E F \in SUBSET Folder : Resolve(F),
         NEW R, NEW G, R \subseteq Known', G \subseteq Known', History(R, G)
  PROVE  /\ kept' \subseteq Declared' \cap Known' /\ firm' \subseteq Committed' \cap Known'
         /\ kept \subseteq kept' /\ kept' \subseteq kept \cup R
         /\ firm \subseteq firm' /\ firm' \subseteq firm \cup G
<1>1. Declared' = Declared /\ Committed' = Committed
  BY DEF Declared, Committed, world
<1>2. kept \subseteq Declared /\ kept \subseteq Known /\ firm \subseteq Committed /\ firm \subseteq Known
  BY DEF ControlInv, KeptInv, FirmInv
<1>3. kept \subseteq Known' /\ firm \subseteq Known'
  <2>1. CASE UNCHANGED cache
    BY <1>2, <2>1 DEF Known
  <2>2. CASE \E F \in SUBSET Folder : Resolve(F)
    BY <1>2, <2>2, ResolveKnown DEF Declared, Committed, ControlInv
  <2> QED
    BY <2>1, <2>2
<1> QED
  BY <1>1, <1>2, <1>3 DEF History

\* A bulk sync keeps its grants as long as they stay in effect.
LEMMA BatchKept ==
  ASSUME BatchInv, UNCHANGED batch, firm \subseteq firm', firm' \subseteq Grants(store', members')
  PROVE  BatchInv'
<1>1. batch'.firm \subseteq firm'
  BY DEF BatchInv
<1>2. ASSUME batch.at = "config", NEW r \in batch.firm
      PROVE  r \in Grants(batch.store, members')
  <2>1. r \in Grants(batch.store, members) /\ r \in Grants(store', members')
    BY <1>2, <1>1 DEF BatchInv
  <2> QED
    BY <2>1 DEF Grants, Routes
<1> QED
  BY <1>1, <1>2 DEF BatchInv

\* Before startup nothing is loaded and nothing is promised.
LEMMA ControlInvInit == Init => ControlInv
<1> SUFFICES ASSUME Init PROVE ControlInv
  OBVIOUS
<1>1. /\ conf \in Config /\ rbac \in RBAC /\ under \in [Folder -> Projects]
      /\ cache \in [Folder -> [projects : {Unknown} \cup Projects, fresh : BOOLEAN]]
      /\ units \in Projects /\ edits \in 0..MaxEdits /\ faults \in 0..MaxFaults
  BY ControlAssumption DEF Init, Config, Projects
<1>2. /\ recon \in Settings /\ last \in [notify : Setting, managed : Setting]
      /\ store \in RBAC /\ members \in Membership
  BY DEF Init, Settings, Setting, RBAC, Projects, NoGrants, NoMembers, Membership
<1>3. batch \in [at : {"idle", "config", "run"}, store : RBAC, members : Membership,
                 todo : Projects, firm : SUBSET Route]
  BY <1>2 DEF Init, NoBatch, Projects
<1>4. TypeOK
  BY <1>1, <1>2, <1>3 DEF Init, TypeOK
<1>5. kept = {} /\ firm = {} /\ batch.firm = {}
  BY DEF Init, NoBatch
<1>6. KeptInv /\ FirmInv /\ BatchInv /\ OffInv
  BY <1>5 DEF KeptInv, FirmInv, BatchInv, OffInv, Ends
<1> QED
  BY <1>4, <1>6 DEF ControlInv

\* Startup: everything in effect has just been resolved.
LEMMA BootStep == ControlInv /\ Boot => ControlInv'
<1> SUFFICES ASSUME ControlInv, Boot PROVE ControlInv'
  OBVIOUS
<1> DEFINE R == Routes(conf.units, conf.folders, Answers(cache'))
<1>t. TypeOK
  BY DEF ControlInv
<1>1. conf.folders \cup rbac.folders \in SUBSET Folder
  BY <1>t DEF TypeOK, Config, RBAC
<1>2. /\ cache' \in [Folder -> [projects : {Unknown} \cup Projects, fresh : BOOLEAN]]
      /\ faults' \in 0..MaxFaults
  BY <1>t, <1>1, ResolveType DEF Boot
<1>3. store' \in RBAC /\ members' \in Membership
  <2>1. store' \in RBAC
    BY <1>t DEF Boot, TypeOK, NoGrants, RBAC, Projects
  <2>2. \A f \in Folder : cache'[f].projects \in {Unknown} \cup Projects
    BY <1>2
  <2>3. NoMembers \in Membership
    BY DEF NoMembers, Membership
  <2> QED
    BY <2>1, <2>2, <2>3 DEF Boot, Membership
<1>4. recon' \in Settings
  BY <1>t DEF Boot, Built, TypeOK, Config, Settings, Setting
<1>5. \A f \in Folder : members'[f] = Unknown \/ members'[f] = Answers(cache')[f]
  BY DEF Boot, NoMembers, Answers
<1>6. R \subseteq Known' /\ Grants(store', members') \subseteq Known'
  <2>1. /\ conf.units \in SUBSET Unit /\ conf.folders \in SUBSET Folder
        /\ store'.units \in SUBSET Unit /\ store'.folders \in SUBSET Folder
    BY <1>t, <1>3 DEF TypeOK, Config, RBAC, Projects
  <2> QED
    BY <1>5, <2>1, TakenIsKnown DEF Grants, Known
<1>7. /\ kept' \subseteq Declared' \cap Known' /\ firm' \subseteq Committed' \cap Known'
      /\ kept' \subseteq R /\ firm' \subseteq Grants(store', members')
  <2>1. UNCHANGED world /\ History(R, Grants(store', members'))
    BY DEF Boot
  <2>2. kept = {} /\ firm = {}
    BY DEF Boot, ControlInv, OffInv
  <2>3. \E F \in SUBSET Folder : Resolve(F)
    BY <1>1 DEF Boot
  <2>4. /\ kept' \subseteq Declared' \cap Known' /\ firm' \subseteq Committed' \cap Known'
        /\ kept' \subseteq kept \cup R /\ firm' \subseteq firm \cup Grants(store', members')
    BY <1>6, <2>1, <2>3, LoadStep, Zenon
  <2> HIDE DEF R
  <2> QED
    BY <2>2, <2>4
<1>8. units' = Ends(R) /\ units' \in Projects
  BY EndsType DEF Boot
<1>9. kept' \subseteq Route /\ firm' \subseteq Route
  BY <1>7 DEF Declared, Committed, Routes
<1>10. TypeOK'
  BY <1>t, <1>2, <1>3, <1>4, <1>8, <1>9 DEF Boot, TypeOK, world
<1>11. KeptInv' /\ FirmInv'
  BY <1>7, <1>8, EndsOf DEF KeptInv, FirmInv
<1>12. BatchInv' /\ OffInv'
  <2>1. UNCHANGED batch /\ pc' = "wait" /\ firm = {}
    BY DEF Boot, ControlInv, OffInv
  <2>2. BatchInv
    BY DEF ControlInv
  <2> QED
    BY <1>7, <2>1, <2>2, BatchKept DEF OffInv
<1> QED
  BY <1>10, <1>11, <1>12 DEF ControlInv

\* A reload finds every unit that is still declared.
LEMMA ReloadStep == ControlInv /\ Reload => ControlInv'
<1> SUFFICES ASSUME ControlInv, Reload PROVE ControlInv'
  OBVIOUS
<1> DEFINE R == Routes(conf.units, conf.folders, Answers(cache'))
<1>t. TypeOK
  BY DEF ControlInv
<1>1. conf.folders \in SUBSET Folder /\ conf.units \in SUBSET Unit
  BY <1>t DEF TypeOK, Config, Projects
<1>2. /\ cache' \in [Folder -> [projects : {Unknown} \cup Projects, fresh : BOOLEAN]]
      /\ faults' \in 0..MaxFaults
  BY <1>t, <1>1, ResolveType DEF Reload
<1>3. R \subseteq Known'
  BY <1>1, TakenIsKnown DEF Known
<1>4. /\ kept' \subseteq Declared' \cap Known' /\ firm' \subseteq Committed' \cap Known'
      /\ kept \subseteq kept' /\ kept' \subseteq kept \cup R
      /\ firm \subseteq firm' /\ firm' \subseteq firm
  <2>1. UNCHANGED world /\ History(R, {}) /\ \E F \in SUBSET Folder : Resolve(F)
    BY <1>1 DEF Reload
  <2>2. {} \subseteq Known'
    OBVIOUS
  <2>3. /\ kept' \subseteq Declared' \cap Known' /\ firm' \subseteq Committed' \cap Known'
        /\ kept \subseteq kept' /\ kept' \subseteq kept \cup R
        /\ firm \subseteq firm' /\ firm' \subseteq firm \cup {}
    BY <1>3, <2>1, <2>2, LoadStep, Zenon
  <2> HIDE DEF R
  <2> QED
    BY <2>3
<1>5. kept' \subseteq R
  <2>1. kept \subseteq Declared /\ kept \subseteq Known'
    BY <1>4 DEF ControlInv, KeptInv
  <2>2. UNCHANGED <<conf, under>>
    BY DEF Reload, world
  <2> QED
    BY <1>4, <2>1, <2>2, ReloadFinds
<1>6. units' = Ends(R) /\ units' \in Projects
  BY EndsType DEF Reload
<1>7. recon' \in Settings /\ last' \in [notify : Setting, managed : Setting]
  BY <1>t DEF Reload, Built, TypeOK, Config, Settings, Setting
<1>8. kept' \subseteq Route /\ firm' \subseteq Route
  BY <1>4 DEF Declared, Committed, Routes
<1>9. TypeOK'
  BY <1>t, <1>2, <1>6, <1>7, <1>8 DEF Reload, TypeOK, world, access
<1>10. KeptInv' /\ FirmInv'
  <2>1. firm' \subseteq Grants(store', members')
    BY <1>4 DEF Reload, access, ControlInv, FirmInv
  <2> QED
    BY <1>4, <1>5, <1>6, <2>1, EndsOf DEF KeptInv, FirmInv
<1>11. BatchInv' /\ OffInv'
  <2>1. UNCHANGED batch /\ pc' = "rbac" /\ BatchInv
    BY DEF Reload, ControlInv
  <2> QED
    BY <1>4, <1>10, <2>1, BatchKept DEF OffInv, FirmInv
<1> QED
  BY <1>9, <1>10, <1>11 DEF ControlInv

\* A failed reload loads nothing and drops nothing.
LEMMA ReloadFailsStep == ControlInv /\ ReloadFails => ControlInv'
<1> SUFFICES ASSUME ControlInv, ReloadFails PROVE ControlInv'
  OBVIOUS
<1>t. TypeOK
  BY DEF ControlInv
<1>1. conf.folders \in SUBSET Folder
  BY <1>t DEF TypeOK, Config
<1>2. /\ cache' \in [Folder -> [projects : {Unknown} \cup Projects, fresh : BOOLEAN]]
      /\ faults' \in 0..MaxFaults
  <2>1. CASE Resolve(conf.folders)
    BY <1>t, <1>1, <2>1, ResolveType
  <2>2. CASE Fault /\ UNCHANGED cache
    BY <1>t, <2>2, ControlAssumption DEF Fault, TypeOK
  <2> QED
    BY <2>1, <2>2 DEF ReloadFails
<1>3. /\ kept' \subseteq Declared' \cap Known' /\ firm' \subseteq Committed' \cap Known'
      /\ kept' = kept /\ firm' = firm
  <2>1. /\ UNCHANGED world /\ History({}, {})
        /\ UNCHANGED cache \/ \E F \in SUBSET Folder : Resolve(F)
    BY <1>1 DEF ReloadFails
  <2>2. {} \subseteq Known'
    OBVIOUS
  <2>3. /\ kept' \subseteq Declared' \cap Known' /\ firm' \subseteq Committed' \cap Known'
        /\ kept \subseteq kept' /\ kept' \subseteq kept \cup {}
        /\ firm \subseteq firm' /\ firm' \subseteq firm \cup {}
    BY <2>1, <2>2, LoadStep, Zenon
  <2> QED
    BY <2>3
<1>4. UNCHANGED <<units, recon, last, store, members, batch>> /\ pc' = "rbac"
  BY DEF ReloadFails, KeepUnits, loaded, access
<1>5. TypeOK'
  BY <1>t, <1>2, <1>3, <1>4 DEF ReloadFails, TypeOK, world
<1>6. KeptInv' /\ FirmInv'
  BY <1>3, <1>4 DEF ControlInv, KeptInv, FirmInv
<1>7. BatchInv' /\ OffInv'
  BY <1>3, <1>4, <1>6, BatchKept DEF ControlInv, OffInv, FirmInv
<1> QED
  BY <1>5, <1>6, <1>7 DEF ControlInv

\* New rules with the old memberships grant all that is still committed.
LEMMA ReloadRBACStep == ControlInv /\ ReloadRBAC => ControlInv'
<1> SUFFICES ASSUME ControlInv, ReloadRBAC PROVE ControlInv'
  OBVIOUS
<1>t. TypeOK
  BY DEF ControlInv
<1>1. rbac.units \in SUBSET Unit /\ rbac.folders \in SUBSET Folder
  BY <1>t DEF TypeOK, RBAC, Projects
<1>2. Grants(rbac, NoMembers) \subseteq Known'
  <2>1. \A f \in Folder : NoMembers[f] = Unknown \/ NoMembers[f] = Answers(cache')[f]
    BY DEF NoMembers
  <2> QED
    BY <1>1, <2>1, TakenIsKnown DEF Grants, Known
<1>3. /\ kept' \subseteq Declared' \cap Known' /\ firm' \subseteq Committed' \cap Known'
      /\ kept' = kept /\ firm \subseteq firm'
      /\ firm' \subseteq firm \cup Grants(rbac, NoMembers)
  <2>g. PICK G : G = Grants(rbac, NoMembers)
    OBVIOUS
  <2>1. /\ UNCHANGED world /\ History({}, G) /\ G \subseteq Known'
        /\ UNCHANGED cache \/ \E F \in SUBSET Folder : Resolve(F)
    BY <1>2, <2>g DEF ReloadRBAC
  <2>2. {} \subseteq Known'
    OBVIOUS
  <2>3. /\ kept' \subseteq Declared' \cap Known' /\ firm' \subseteq Committed' \cap Known'
        /\ kept \subseteq kept' /\ kept' \subseteq kept \cup {}
        /\ firm \subseteq firm' /\ firm' \subseteq firm \cup G
    BY <2>1, <2>2, LoadStep, Zenon
  <2> QED
    BY <2>g, <2>3
<1>4. firm' \subseteq Grants(store', members')
  <2>1. store' = rbac /\ members' = members
    BY DEF ReloadRBAC
  <2>2. firm \subseteq Committed /\ firm \subseteq Grants(store, members)
    BY DEF ControlInv, FirmInv
  <2>3. firm \subseteq Grants(rbac, members)
    BY <2>2 DEF Committed, Grants, Routes
  <2>4. Grants(rbac, NoMembers) \subseteq Grants(rbac, members)
    <3>1. \A f \in Folder : NoMembers[f] = Unknown
      BY DEF NoMembers
    <3>2. \A r \in Grants(rbac, NoMembers) : r \in Route /\ r[2] = Direct /\ r[1] \in rbac.units
      BY <3>1, RouteParts DEF Grants, Routes
    <3> QED
      BY <3>2 DEF Grants, Routes
  <2> QED
    BY <1>3, <2>1, <2>3, <2>4
<1>5. kept' \subseteq Route /\ firm' \subseteq Route
  BY <1>3 DEF Declared, Committed, Routes
<1>6. TypeOK'
  BY <1>t, <1>5 DEF ReloadRBAC, TypeOK, world, loaded
<1>7. KeptInv' /\ FirmInv'
  BY <1>3, <1>4 DEF ReloadRBAC, loaded, ControlInv, KeptInv, FirmInv
<1>8. BatchInv' /\ OffInv'
  BY <1>3, <1>4, BatchKept DEF ReloadRBAC, ControlInv, OffInv
<1> QED
  BY <1>6, <1>7, <1>8 DEF ControlInv

\* New memberships are of the cache, which knows every grant in effect.
LEMMA ReloadMembersStep == ControlInv /\ ReloadMembers => ControlInv'
<1> SUFFICES ASSUME ControlInv, ReloadMembers PROVE ControlInv'
  OBVIOUS
<1>t. TypeOK
  BY DEF ControlInv
<1>1. store.units \in SUBSET Unit /\ store.folders \in SUBSET Folder
  BY <1>t DEF TypeOK, RBAC, Projects
<1>2. /\ cache' \in [Folder -> [projects : {Unknown} \cup Projects, fresh : BOOLEAN]]
      /\ faults' \in 0..MaxFaults
  BY <1>t, <1>1, ResolveType DEF ReloadMembers
<1>3. UNCHANGED <<world, units, recon, last, store, batch>> /\ pc' = "pass"
  BY DEF ReloadMembers, loaded
<1>4. PICK G : /\ G \subseteq Known' /\ History({}, G)
               /\ G \subseteq Grants(store, members')
               /\ members' \in Membership
               /\ \/ members' = members
                  \/ \A f \in store.folders : members'[f] = Answers(cache')[f]
  <2>1. CASE \E f \in store.folders : cache'[f].projects = Unknown
    <3>1. {} \subseteq Known' /\ {} \subseteq Grants(store, members')
      OBVIOUS
    <3> QED
      BY <1>t, <2>1, <3>1 DEF ReloadMembers, TypeOK
  <2>2. CASE ~ \E f \in store.folders : cache'[f].projects = Unknown
    <3>1. /\ members' = [f \in Folder |-> IF f \in store.folders
                                          THEN cache'[f].projects ELSE Unknown]
          /\ History({}, Grants(store, members'))
      BY <2>2 DEF ReloadMembers
    <3>2. members' \in Membership
      BY <1>2, <3>1 DEF Membership
    <3>3. \A f \in Folder : members'[f] = Unknown \/ members'[f] = Answers(cache')[f]
      BY <3>1 DEF Answers
    <3>4. Grants(store, members') \subseteq Known'
      BY <1>1, <3>3, TakenIsKnown DEF Grants, Known
    <3>5. \A f \in store.folders : members'[f] = Answers(cache')[f]
      BY <1>1, <3>1 DEF Answers
    <3> QED
      BY <3>1, <3>2, <3>4, <3>5
  <2> QED
    BY <2>1, <2>2
<1>5. /\ kept' \subseteq Declared' \cap Known' /\ firm' \subseteq Committed' \cap Known'
      /\ kept' = kept /\ firm \subseteq firm' /\ firm' \subseteq firm \cup G
  <2>1. UNCHANGED world /\ \E F \in SUBSET Folder : Resolve(F)
    BY <1>1 DEF ReloadMembers
  <2>2. {} \subseteq Known'
    OBVIOUS
  <2>3. /\ kept' \subseteq Declared' \cap Known' /\ firm' \subseteq Committed' \cap Known'
        /\ kept \subseteq kept' /\ kept' \subseteq kept \cup {}
        /\ firm \subseteq firm' /\ firm' \subseteq firm \cup G
    BY <1>4, <2>1, <2>2, LoadStep, Zenon
  <2> QED
    BY <2>3
<1>6. firm' \subseteq Grants(store, members')
  <2>1. ASSUME NEW r \in firm, \A f \in store.folders : members'[f] = Answers(cache')[f]
        PROVE  r \in Grants(store, members')
    <3>1. r \in Grants(store, members) /\ r \in Known'
      BY <1>5 DEF ControlInv, FirmInv
    <3> QED
      BY <2>1, <3>1 DEF Grants, Routes, Known
  <2>2. firm \subseteq Grants(store, members)
    BY DEF ControlInv, FirmInv
  <2> QED
    BY <1>4, <1>5, <2>1, <2>2
<1>7. kept' \subseteq Route /\ firm' \subseteq Route
  BY <1>5 DEF Declared, Committed, Routes
<1>8. TypeOK'
  BY <1>t, <1>2, <1>3, <1>4, <1>7 DEF TypeOK, world
<1>9. KeptInv' /\ FirmInv'
  BY <1>3, <1>5, <1>6 DEF ControlInv, KeptInv, FirmInv
<1>10. BatchInv' /\ OffInv'
  BY <1>3, <1>5, <1>6, BatchKept DEF ControlInv, OffInv
<1> QED
  BY <1>8, <1>9, <1>10 DEF ControlInv

\* Commits and moved projects take routes and grants off the histories.
LEMMA EditStep == ControlInv /\ Edit => ControlInv'
<1> SUFFICES ASSUME ControlInv, Edit PROVE ControlInv'
  OBVIOUS
<1>t. TypeOK
  BY DEF ControlInv
<1>1. UNCHANGED <<cache, pc, units, recon, last, store, members, faults>> /\ pc # "off"
  BY DEF Edit, loaded, access
<1>2. /\ kept' = kept \cap Declared' /\ firm' = firm \cap Committed'
      /\ batch' = [batch EXCEPT !.firm = @ \cap Committed']
  BY DEF Edit, History
<1>3. conf' \in Config /\ rbac' \in RBAC /\ under' \in [Folder -> Projects]
  <2>1. CASE /\ conf' \in {[conf EXCEPT !.units = x] : x \in Projects}
                   \cup {[conf EXCEPT !.folders = x] : x \in SUBSET Folder}
                   \cup {[conf EXCEPT !.pinned = x] : x \in Projects}
                   \cup {[conf EXCEPT !.notify = x] : x \in Contents}
                   \cup {[conf EXCEPT !.envs = x] : x \in Contents}
                   \cup {[conf EXCEPT !.managed = x] : x \in Contents}
             /\ UNCHANGED <<rbac, under>>
    BY <1>t, <2>1 DEF TypeOK, Config
  <2>2. CASE rbac' \in RBAC /\ UNCHANGED <<conf, under>>
    BY <1>t, <2>2 DEF TypeOK
  <2>3. CASE /\ \E f \in Folder, x \in Projects : under' = [under EXCEPT ![f] = x]
             /\ UNCHANGED <<conf, rbac>>
    BY <1>t, <2>3 DEF TypeOK
  <2> QED
    BY <2>1, <2>2, <2>3 DEF Edit
<1>4. edits' \in 0..MaxEdits
  BY <1>t, ControlAssumption DEF Edit, TypeOK
<1>5. /\ batch' \in [at : {"idle", "config", "run"}, store : RBAC, members : Membership,
                     todo : Projects, firm : SUBSET Route]
      /\ batch'.at = batch.at /\ batch'.store = batch.store
      /\ batch'.members = batch.members /\ batch'.firm = batch.firm \cap Committed'
  BY <1>t, <1>2 DEF TypeOK
<1>6. TypeOK'
  BY <1>t, <1>1, <1>2, <1>3, <1>4, <1>5 DEF TypeOK
<1>7. KeptInv' /\ FirmInv'
  <2>1. Known' = Known
    BY <1>1 DEF Known
  <2>2. /\ kept \subseteq Known /\ Ends(kept) \subseteq units
        /\ firm \subseteq Known /\ firm \subseteq Grants(store, members)
    BY DEF ControlInv, KeptInv, FirmInv
  <2>3. Ends(kept') \subseteq units'
    BY <1>1, <1>2, <2>2, EndsOf
  <2> QED
    BY <1>1, <1>2, <2>1, <2>2, <2>3 DEF KeptInv, FirmInv
<1>8. BatchInv' /\ OffInv'
  BY <1>1, <1>2, <1>5 DEF ControlInv, BatchInv, OffInv
<1> QED
  BY <1>6, <1>7, <1>8 DEF ControlInv

\* The steps of a bulk sync.
LEMMA BatchStep ==
  ControlInv /\ (BatchBegins \/ BatchLists \/ BatchEnds \/ \E u \in Unit : BatchSyncs(u))
    => ControlInv'
<1> SUFFICES ASSUME ControlInv,
                    BatchBegins \/ BatchLists \/ BatchEnds \/ \E u \in Unit : BatchSyncs(u)
             PROVE  ControlInv'
  OBVIOUS
<1>t. TypeOK
  BY DEF ControlInv
<1>b. batch \in [at : {"idle", "config", "run"}, store : RBAC, members : Membership,
                 todo : Projects, firm : SUBSET Route]
  BY <1>t DEF TypeOK
<1>1. UNCHANGED <<conf, rbac, under, edits, cache, pc, units, recon, last, store, members,
                  kept, firm, faults>>
  BY DEF BatchBegins, BatchLists, BatchEnds, BatchSyncs, world, loaded, access
<1>2. KeptInv' /\ FirmInv'
  BY <1>1 DEF ControlInv, KeptInv, FirmInv, Declared, Committed, Known
<1>3. ASSUME batch' \in [at : {"idle", "config", "run"}, store : RBAC, members : Membership,
                         todo : Projects, firm : SUBSET Route],
             BatchInv', pc = "off" => batch'.firm = {}
      PROVE  ControlInv'
  <2>1. TypeOK'
    BY <1>t, <1>1, <1>3 DEF TypeOK
  <2>2. OffInv'
    BY <1>1, <1>3 DEF ControlInv, OffInv
  <2> QED
    BY <1>2, <1>3, <2>1, <2>2 DEF ControlInv
<1>4. CASE BatchBegins
  <2>1. /\ batch'.at = "config" /\ batch'.store = store /\ batch'.firm = firm
        /\ batch' \in [at : {"idle", "config", "run"}, store : RBAC, members : Membership,
                       todo : Projects, firm : SUBSET Route]
    BY <1>t, <1>b, <1>4 DEF BatchBegins, TypeOK
  <2>2. BatchInv'
    BY <1>1, <2>1 DEF ControlInv, FirmInv, BatchInv
  <2> QED
    BY <1>3, <1>4, <2>1, <2>2 DEF BatchBegins
<1>5. CASE BatchLists
  <2>1. PICK candidates \in SUBSET units :
           batch' = [batch EXCEPT !.at = "run", !.members = members, !.todo = candidates]
    BY <1>5 DEF BatchLists
  <2>2. candidates \in Projects
    BY <1>t DEF TypeOK, Projects
  <2>3. /\ batch'.at = "run" /\ batch'.store = batch.store /\ batch'.firm = batch.firm
        /\ batch'.members = members
        /\ batch' \in [at : {"idle", "config", "run"}, store : RBAC, members : Membership,
                       todo : Projects, firm : SUBSET Route]
    BY <1>t, <1>b, <2>1, <2>2 DEF TypeOK
  <2>4. BatchInv'
    BY <1>1, <1>5, <2>3 DEF BatchLists, ControlInv, BatchInv
  <2> QED
    BY <1>3, <2>3, <2>4 DEF ControlInv, OffInv
<1>6. CASE BatchEnds
  <2>1. /\ batch'.at = "idle" /\ batch'.firm = {}
        /\ batch' \in [at : {"idle", "config", "run"}, store : RBAC, members : Membership,
                       todo : Projects, firm : SUBSET Route]
    BY <1>6 DEF BatchEnds, NoBatch, NoGrants, NoMembers, RBAC, Membership, Projects
  <2>2. BatchInv'
    BY <2>1 DEF BatchInv
  <2> QED
    BY <1>3, <2>1, <2>2
<1>7. CASE \E u \in Unit : BatchSyncs(u)
  <2>1. PICK u \in Unit : batch' = [batch EXCEPT !.todo = @ \ {u}]
    BY <1>7 DEF BatchSyncs
  <2>2. /\ batch'.at = batch.at /\ batch'.store = batch.store /\ batch'.firm = batch.firm
        /\ batch'.members = batch.members
        /\ batch' \in [at : {"idle", "config", "run"}, store : RBAC, members : Membership,
                       todo : Projects, firm : SUBSET Route]
    BY <1>b, <2>1 DEF Projects
  <2>3. BatchInv'
    BY <1>1, <2>2 DEF ControlInv, BatchInv
  <2> QED
    BY <1>3, <2>2, <2>3 DEF ControlInv, OffInv
<1> QED
  BY <1>4, <1>5, <1>6, <1>7

\* The steps that load nothing: their cache says what it said.
LEMMA IdleStep ==
  ControlInv /\ (StartTick \/ ReloadRBACFails \/ EndTick \/ (\E f \in Folder : Expire(f))
                 \/ UNCHANGED vars)
    => ControlInv'
<1> SUFFICES ASSUME ControlInv, StartTick \/ ReloadRBACFails \/ EndTick
                                \/ (\E f \in Folder : Expire(f)) \/ UNCHANGED vars
             PROVE  ControlInv'
  OBVIOUS
<1>t. TypeOK
  BY DEF ControlInv
<1>1. UNCHANGED <<conf, rbac, under, edits, units, recon, last, store, members, batch, kept,
                  firm>>
  BY DEF StartTick, ReloadRBACFails, EndTick, Expire, vars, world, loaded, access
<1>2. /\ cache' \in [Folder -> [projects : {Unknown} \cup Projects, fresh : BOOLEAN]]
      /\ \A f \in Folder : cache'[f].projects = cache[f].projects
  <2>1. ASSUME NEW g \in Folder, Expire(g)
        PROVE  /\ cache' \in [Folder -> [projects : {Unknown} \cup Projects, fresh : BOOLEAN]]
               /\ \A f \in Folder : cache'[f].projects = cache[f].projects
    <3>1. cache' = [cache EXCEPT ![g] = [cache[g] EXCEPT !.fresh = FALSE]]
      BY <2>1 DEF Expire
    <3>2. cache[g] \in [projects : {Unknown} \cup Projects, fresh : BOOLEAN]
      BY <1>t DEF TypeOK
    <3>3. /\ [cache[g] EXCEPT !.fresh = FALSE]
               \in [projects : {Unknown} \cup Projects, fresh : BOOLEAN]
          /\ [cache[g] EXCEPT !.fresh = FALSE].projects = cache[g].projects
      BY <3>2
    <3> QED
      BY <1>t, <3>1, <3>3 DEF TypeOK
  <2> QED
    BY <1>t, <2>1 DEF StartTick, ReloadRBACFails, EndTick, vars, TypeOK
<1>3. /\ pc' \in {"off", "wait", "config", "rbac", "members", "pass"}
      /\ pc' = "off" => pc = "off"
      /\ faults' \in 0..MaxFaults
  BY <1>t, ControlAssumption
  DEF StartTick, ReloadRBACFails, EndTick, Expire, vars, Fault, TypeOK
<1>4. TypeOK'
  BY <1>t, <1>1, <1>2, <1>3 DEF TypeOK
<1>5. Known' = Known
  BY <1>2 DEF Known, Routes, Answers
<1>6. KeptInv' /\ FirmInv' /\ BatchInv' /\ OffInv'
  BY <1>1, <1>3, <1>5 DEF ControlInv, KeptInv, FirmInv, BatchInv, OffInv, Declared, Committed
<1> QED
  BY <1>4, <1>6 DEF ControlInv

\* ControlInv holds throughout.
THEOREM ControlInvariant == Spec => []ControlInv
<1>1. ControlInv /\ [Next]_vars => ControlInv'
  BY BootStep, ReloadStep, ReloadFailsStep, ReloadRBACStep, ReloadMembersStep, EditStep,
     BatchStep, IdleStep DEF Next, Loop
<1> QED
  BY <1>1, ControlInvInit, PTL DEF Spec

\* The state of the control loop is always well typed (TypeOK).
THEOREM ControlTypeCorrect == Spec => []TypeOK
<1>1. ControlInv => TypeOK
  BY DEF ControlInv
<1> QED
  BY <1>1, ControlInvariant, PTL

\* Every pass works on the units that are still declared, whatever could not
\* be fetched (OutageKeepsUnits).
THEOREM UnitsSafety == Spec => []OutageKeepsUnits
<1>1. ControlInv => OutageKeepsUnits
  BY DEF ControlInv, KeptInv, OutageKeepsUnits
<1> QED
  BY <1>1, ControlInvariant, PTL

\* A grant is in effect for as long as it is committed (OutageKeepsGrants).
THEOREM GrantsSafety == Spec => []OutageKeepsGrants
<1>1. ControlInv => OutageKeepsGrants
  BY DEF ControlInv, FirmInv, OutageKeepsGrants
<1> QED
  BY <1>1, ControlInvariant, PTL

\* The two snapshots of a bulk sync grant together what was granted before
\* and between them (BatchKeepsGrants).
THEOREM BatchSafety == Spec => []BatchKeepsGrants
<1>1. ControlInv => BatchKeepsGrants
  BY DEF ControlInv, BatchInv, BatchKeepsGrants
<1> QED
  BY <1>1, ControlInvariant, PTL
=============================================================================
