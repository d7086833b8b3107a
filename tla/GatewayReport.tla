---------------------------- MODULE GatewayReport ----------------------------
(***************************************************************************)
(* The report that correlates the storage reports of gateway owners with   *)
(* the filesystem (src/src/gateway_storage.rs). Owners publish manifests   *)
(* (named files and the files of a directory); the connector reads them,   *)
(* resolves the roots and units they name, and gives each unit a           *)
(* measurement: of an earlier inventory, or of a bounded pass of its own.  *)
(*                                                                         *)
(* A root is named by an id and a location, and a location leads to a      *)
(* physical directory; a unit is <<root id, name>> and lies at             *)
(* <<physical root, name>>. Links inside a root are left out.              *)
(***************************************************************************)
EXTENDS Naturals, Sequences, FiniteSets, Budgets

CONSTANTS
    InDirectory,      \* names a manifest directory may hold
    Published,        \* the manifests at first: name -> owner report
    OwnerReports,     \* reports an owner may write: [roots, units, claims]
    Locations, Physical,  \* where roots are said to be, and where that may lead
    UnitSizes,        \* entries of each physical unit
    Astray,           \* units that are links out of their root
    Inventories,      \* earlier inventories: sequences of [path, exact, complete]
    ExactEntries, ExactPerUnit,  \* --exact-max-entries and the bound per unit
    MaxTurns          \* bound: changes by others

ASSUME UnitsAssumption ==
    /\ IsFiniteSet(DOMAIN UnitSizes) /\ "gone" \notin Physical
    /\ \A p \in DOMAIN UnitSizes : p[1] \in Physical /\ UnitSizes[p] \in Nat
ASSUME ExactAssumption == ExactEntries \in Nat /\ ExactPerUnit \in Nat

VARIABLES
    manifestFiles,    \* name -> [inode, stamp, content]
    leads, units,     \* location -> physical root or "gone"; units that stand
    turns,
    named, inventory, \* manifests named one by one; the inventory, as it is indexed
    step, entriesLeft, \* the connector's stage; directory entries not yet looked at
    snapshot, again,  \* the directory as it was discovered, and at the end
    cut,              \* what the directory held when it had been discovered
    unread, opened,   \* manifests not yet read, the one being read
    parsed,           \* name -> [content, at]: resolved owner reports
    pass, exact, exactLeft  \* the units of the exact pass, its results, its budget

owners == <<manifestFiles, leads, units, turns>>
arguments == <<named, inventory>>
directory == <<snapshot, again, cut>>
exactPass == <<pass, exact, exactLeft>>
gatewayVars == <<owners, arguments, step, entriesLeft, directory, unread, opened, parsed, exactPass>>

NotOpen == [name |-> "none"]
Stamped(f) == [inode |-> f.inode, stamp |-> f.stamp]

GatewayWith(P, where, i) ==
    /\ manifestFiles = [n \in DOMAIN P |-> [inode |-> 0, stamp |-> 0, content |-> P[n]]]
    /\ leads = where /\ units = DOMAIN UnitSizes /\ turns = 0
    /\ named = DOMAIN P \ InDirectory /\ inventory = i
    /\ step = "start" /\ entriesLeft = {} /\ snapshot = <<>> /\ again = <<>> /\ cut = <<>>
    /\ unread = {} /\ opened = NotOpen /\ parsed = <<>>
    /\ pass = {} /\ exact = <<>> /\ exactLeft = 0

GatewayInit == \E P \in Published, where \in [Locations -> Physical], i \in Inventories : GatewayWith(P, where, i)

-----------------------------------------------------------------------------
(* The manifests *)
Held == DOMAIN manifestFiles \cap InDirectory

\* Manifests named one by one must be there.
DiscoverManifests ==
    /\ step = "start"
    /\ step' = IF named \subseteq DOMAIN manifestFiles THEN "discover" ELSE "failed"
    /\ entriesLeft' = Held
    /\ UNCHANGED <<owners, arguments, directory, unread, opened, parsed, exactPass>>

\* Mutant: the directory is compared by the names in it.
NamesOnly(n) == [inode |-> 0, stamp |-> 0]

\* What is remembered of a manifest file.
FileSnapshot(n) == Stamped(manifestFiles[n])

\* A reader of the directory may or may not return an entry made meanwhile.
LateEntries == Held \ (entriesLeft \cup IF step = "discover" THEN DOMAIN snapshot ELSE DOMAIN again)

\* Each entry is looked at in turn; one that has gone fails the report.
LookAtEntry(n) ==
    /\ step \in {"discover", "verify"} /\ n \in entriesLeft \cup LateEntries
    /\ entriesLeft' = entriesLeft \ {n}
    /\ LET seen(s) == [k \in DOMAIN s \cup {n} |-> IF k = n THEN FileSnapshot(n) ELSE s[k]] IN
       IF n \notin DOMAIN manifestFiles THEN step' = "failed" /\ UNCHANGED directory
       ELSE /\ UNCHANGED <<step, cut>>
            /\ snapshot' = IF step = "discover" THEN seen(snapshot) ELSE snapshot
            /\ again' = IF step = "verify" THEN seen(again) ELSE again
    /\ UNCHANGED <<owners, arguments, unread, opened, parsed, exactPass>>

\* At least one manifest is needed.
EndDiscovery ==
    /\ step = "discover" /\ entriesLeft = {}
    /\ unread' = DOMAIN snapshot \cup named
    /\ step' = IF unread' = {} THEN "failed" ELSE "read"
    /\ cut' = manifestFiles
    /\ UNCHANGED <<owners, arguments, entriesLeft, snapshot, again, opened, parsed, exactPass>>

OpenManifest(n) ==
    /\ step = "read" /\ opened = NotOpen /\ n \in unread
    /\ IF n \in DOMAIN manifestFiles
       THEN opened' = [name |-> n, seen |-> manifestFiles[n], read |-> FALSE, bytes |-> manifestFiles[n].content] /\ UNCHANGED step
       ELSE step' = "failed" /\ UNCHANGED opened
    /\ UNCHANGED <<owners, arguments, entriesLeft, directory, unread, parsed, exactPass>>

\* An open file is read to its end, whatever its name has become since.
ReadManifest ==
    /\ opened # NotOpen /\ ~opened.read
    /\ LET n == opened.name
           mine == n \in DOMAIN manifestFiles /\ manifestFiles[n].inode = opened.seen.inode
       IN opened' = [name |-> n, seen |-> opened.seen, read |-> TRUE,
                     bytes |-> IF mine THEN manifestFiles[n].content ELSE opened.bytes]
    /\ UNCHANGED <<owners, arguments, step, entriesLeft, directory, unread, parsed, exactPass>>

\* The owner's contract for a unit, and in particular for a report candidate.
ValidClaim(c) ==
    /\ c.closed <=> c.aged
    /\ c.legacy => ~c.complete
    /\ c.candidate => /\ c.closed /\ c.complete /\ ~c.pinned /\ ~c.pending
                      /\ IF c.logs THEN c.sealed ELSE c.exported
ValidReport(r) ==
    /\ DOMAIN r.roots # {}
    /\ \A u \in r.units : u[1] \in DOMAIN r.roots /\ ValidClaim(r.claims[u])

\* Where a report's roots and units are now: "gone" is no place at all.
RootAt(r, id) == leads[r.roots[id]]
UnitAt(r, u) == IF <<RootAt(r, u[1]), u[2]>> \in units THEN <<RootAt(r, u[1]), u[2]>> ELSE <<"gone", u[2]>>

\* A manifest counts if it did not change while it was read, keeps the
\* contract, and none of its units leaves its root: or the report fails.
ParseManifest ==
    /\ opened # NotOpen /\ opened.read
    /\ LET n == opened.name
           r == opened.bytes
           at == [id \in DOMAIN r.roots |-> RootAt(r, id)]
           lies == [u \in r.units |-> UnitAt(r, u)]
           steady == n \in DOMAIN manifestFiles /\ Stamped(manifestFiles[n]) = Stamped(opened.seen)
       IN IF steady /\ ValidReport(r) /\ {lies[u] : u \in r.units} \cap Astray = {}
          THEN /\ parsed' = [k \in DOMAIN parsed \cup {n} |-> IF k = n THEN [content |-> r, at |-> at, lies |-> lies]
                                                             ELSE parsed[k]]
               /\ unread' = unread \ {n} /\ opened' = NotOpen /\ UNCHANGED step
          ELSE step' = "failed" /\ opened' = NotOpen /\ UNCHANGED <<parsed, unread>>
    /\ UNCHANGED <<owners, arguments, entriesLeft, directory, exactPass>>

VerifyDirectory ==
    /\ step = "read" /\ unread = {} /\ opened = NotOpen /\ step' = "verify"
    /\ entriesLeft' = Held
    /\ UNCHANGED <<owners, arguments, directory, unread, opened, parsed, exactPass>>

-----------------------------------------------------------------------------
(* Correlation *)
Observations(id) == {n \in DOMAIN parsed : id \in DOMAIN parsed[n].at}

\* Mutant: two reports conflict by the location they state only.
ByLocation(id) ==
    \E n, m \in Observations(id) : parsed[n].content.roots[id] # parsed[m].content.roots[id]

\* Owner reports that disagree on what a root id is.
IdentityConflict(id) == \E n, m \in Observations(id) :
    \/ parsed[n].content.roots[id] # parsed[m].content.roots[id]
    \/ parsed[n].at[id] # parsed[m].at[id] /\ "gone" \notin {parsed[n].at[id], parsed[m].at[id]}

\* An exact root is preferred to a retained entry, then complete evidence;
\* of equals the first stays.
Preferred(old, new) == IF old.exact # new.exact THEN new.exact ELSE new.complete /\ ~old.complete
Best(measurements, p) ==
    LET of == SelectSeq(measurements, LAMBDA m : m.path = p)
        best[k \in 1 .. Len(of)] == IF k = 1 \/ Preferred(best[k - 1], of[k]) THEN of[k] ELSE best[k - 1]
    IN IF of = <<>> THEN [complete |-> FALSE] ELSE best[Len(of)]

\* What the inventory has of p.
Broad(p) == Best(inventory, p)

\* The path by which a unit may be measured, if there is one.
MayMeasure(n, u) == ~IdentityConflict(u[1]) /\ parsed[n].lies[u][1] # "gone"

\* The directory is as it was discovered; units without complete evidence in
\* the inventory go to the exact pass.
Correlate ==
    /\ step = "verify" /\ entriesLeft = {}
    /\ IF snapshot # again THEN step' = "failed" /\ UNCHANGED exactPass
       ELSE /\ pass' = UNION {{parsed[n].lies[u] : u \in {v \in parsed[n].content.units :
                               MayMeasure(n, v) /\ ~Broad(parsed[n].lies[v]).complete}} : n \in DOMAIN parsed}
            /\ exactLeft' = ExactEntries /\ exact' = <<>> /\ step' = "measure"
    /\ UNCHANGED <<owners, arguments, entriesLeft, directory, unread, opened, parsed>>

\* Mutant: a unit may use all that is left.
FirstUnitTakesAll == Least(ExactPerUnit, exactLeft)
UnitBudget == Least(ExactPerUnit, CeilDiv(exactLeft, Cardinality(pass)))

\* The pass takes the units one by one; one that has gone costs nothing and is
\* left without a measurement, another failure fails the report.
MeasureUnit(p, fails, pending) ==
    /\ step = "measure" /\ p \in pass /\ exactLeft > 0
    /\ pass' = pass \ {p}
    /\ LET visited == Least(UnitSizes[p], UnitBudget) IN
       \/ fails /\ step' = "failed" /\ UNCHANGED <<exact, exactLeft>>
       \/ ~fails /\ p \notin units /\ UNCHANGED <<step, exact, exactLeft>>
       \/ /\ ~fails /\ p \in units
          /\ exact' = [q \in DOMAIN exact \cup {p} |->
                         IF q = p THEN [complete |-> Finishes(UnitSizes[p], UnitBudget, pending)] ELSE exact[q]]
          /\ exactLeft' = exactLeft - visited /\ UNCHANGED step
    /\ UNCHANGED <<owners, arguments, entriesLeft, directory, unread, opened, parsed>>

FinishReport ==
    /\ step = "measure" /\ (pass = {} \/ exactLeft = 0) /\ step' = "reported"
    /\ UNCHANGED <<owners, arguments, entriesLeft, directory, unread, opened, parsed, exactPass>>

\* The source of a unit's measurement in the report.
Source(n, u) ==
    LET p == parsed[n].lies[u] IN
    IF ~MayMeasure(n, u) THEN "Unavailable"
    ELSE IF Broad(p).complete THEN "InventoryManifestExact"
    ELSE IF p \in DOMAIN exact THEN "ExactUnitSubpass" ELSE "Unavailable"

-----------------------------------------------------------------------------
(* The others: owners publish, rewrite and withdraw manifests; locations are
   led elsewhere; units are deleted. *)
Turn ==
    /\ step \notin {"failed", "reported"} /\ turns < MaxTurns /\ turns' = turns + 1
    /\ UNCHANGED <<arguments, step, entriesLeft, directory, unread, opened, parsed, exactPass>>

Publish(n, r, inPlace) ==
    /\ inPlace => n \in DOMAIN manifestFiles
    /\ n \in InDirectory \cup DOMAIN manifestFiles
    /\ manifestFiles' = [k \in DOMAIN manifestFiles \cup {n} |-> IF k # n THEN manifestFiles[k]
            ELSE [inode |-> IF inPlace THEN manifestFiles[n].inode ELSE turns + 1, stamp |-> turns + 1, content |-> r]]
    /\ UNCHANGED <<leads, units>> /\ Turn
Withdraw(n) ==
    /\ manifestFiles' = [k \in DOMAIN manifestFiles \ {n} |-> manifestFiles[k]]
    /\ UNCHANGED <<leads, units>> /\ Turn
Lead(l, p) ==
    /\ leads[l] # p /\ leads' = [leads EXCEPT ![l] = p]
    /\ UNCHANGED <<manifestFiles, units>> /\ Turn
DeleteUnit(p) ==
    /\ units' = units \ {p}
    /\ UNCHANGED <<manifestFiles, leads>> /\ Turn

Others ==
    \/ \E n \in InDirectory \cup DOMAIN manifestFiles, r \in OwnerReports, inPlace \in BOOLEAN : Publish(n, r, inPlace)
    \/ \E n \in DOMAIN manifestFiles : Withdraw(n)
    \/ \E l \in Locations, p \in Physical \cup {"gone"} : Lead(l, p)
    \/ \E p \in units : DeleteUnit(p)

Connector ==
    \/ DiscoverManifests \/ (\E n \in entriesLeft \cup LateEntries : LookAtEntry(n)) \/ EndDiscovery
    \/ (\E n \in unread : OpenManifest(n)) \/ ReadManifest \/ ParseManifest
    \/ VerifyDirectory \/ Correlate
    \/ \E p \in pass, fails, pending \in BOOLEAN : MeasureUnit(p, fails, pending)
    \/ FinishReport

GatewayNext == Connector \/ Others
GatewaySpec == GatewayInit /\ [][GatewayNext]_gatewayVars

-----------------------------------------------------------------------------
(* Properties *)

\* The manifests taken from a directory all stood there together, with the
\* contents reported, at one moment of the run, however owners replaced or
\* rewrote them one after the other. (gateway_storage.rs: "gateway manifest
\* directory changed while it was being read".)
ReportIsOneCut ==
    step = "reported" => \A n \in DOMAIN parsed \cap InDirectory :
        n \in DOMAIN cut /\ parsed[n].content = cut[n].content

\* All that is measured under one root id lies in one physical root, even if
\* the location was led elsewhere between two reports.
OneRootPerIdentity ==
    step = "reported" =>
        \A n, m \in DOMAIN parsed : \A u \in parsed[n].content.units, v \in parsed[m].content.units :
            /\ u[1] = v[1] /\ Source(n, u) # "Unavailable" /\ Source(m, v) # "Unavailable"
            => parsed[n].lies[u][1] = parsed[m].lies[v][1]

\* A large unit, or one that vanishes, never costs another one its
\* measurement: a unit that stands gets one, and a complete one if it is
\* smaller than its fair share of the budget.
StandingUnitsAreMeasured ==
    LET wanted == {p \in DOMAIN UnitSizes : \E n \in DOMAIN parsed : \E u \in parsed[n].content.units :
                        parsed[n].lies[u] = p /\ ~Broad(p).complete}
    IN step = "reported" /\ Cardinality(wanted) <= ExactEntries =>
        \A n \in DOMAIN parsed : \A u \in parsed[n].content.units :
            LET p == parsed[n].lies[u] IN
            p \in units /\ ~IdentityConflict(u[1]) =>
                /\ Source(n, u) # "Unavailable"
                /\ \/ Broad(p).complete
                   \/ UnitSizes[p] >= Least(ExactPerUnit, ExactEntries \div Cardinality(wanted))
                   \/ exact[p].complete
=============================================================================
