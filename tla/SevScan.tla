------------------------------ MODULE SevScan ------------------------------
(***************************************************************************)
(* The scans for a divisor: the short exponent vectors of                  *)
(* src/src/monomial.rs as sets of bits, the chunked scans of               *)
(* src/src/simd.rs, and find_divisor_idx of src/src/bba.rs over them.      *)
(* Positions are numbered from 1; the position after the last one means    *)
(* that there is none.                                                     *)
(***************************************************************************)
EXTENDS Reduction

CONSTANTS
  SevBits,     \* bits of a short exponent vector, 64 in the code
  Lanes,       \* entries of a vector register, 4 in the code
  Unroll       \* registers of one turn of the main loop, 4 in the code

ASSUME ScanAssumption == SevBits \in Nat \ {0} /\ Lanes \in Nat \ {0} /\ Unroll \in Nat \ {0}

(* MonoTerm::sev: variables that are SevBits apart share a bit. *)
Sev(m) == {(v - 1) % SevBits : v \in {w \in Vars : m[w] > 0}}

(* The entries that the two scans look for: (sevs[i] & not_sev) == 0 and   *)
(* (subset_mask & !sevs[i]) == 0.                                          *)
SubsetHits(sevs, sev) == [i \in DOMAIN sevs |-> sevs[i] \subseteq sev]
SupersetHits(sevs, mask) == [i \in DOMAIN sevs |-> mask \subseteq sevs[i]]

(* The scalar loop. *)
ScalarMatch(hits, start) ==
  LET from == {i \in start .. Len(hits) : hits[i]}
  IN  IF from = {} THEN Len(hits) + 1 ELSE CHOOSE i \in from : \A k \in from : i <= k

(* The first hit of a register is where its mask has its lowest one.       *)
RegisterHit(hits, j) == \E lane \in 0 .. Lanes - 1 : hits[j + lane]

FirstLane(hits, j) ==
  j + CHOOSE lane \in 0 .. Lanes - 1 : hits[j + lane] /\ \A l \in 0 .. lane - 1 : ~hits[j + l]

(* Mutant of VectorMatch: the tail loop needs more than a register left.   *)
VectorMatchShort(hits, start) ==
  LET len == Len(hits)
      at[j \in start .. len + 1] ==
        LET registers == {j + Lanes * r : r \in 0 .. Unroll - 1}
            hit       == {b \in registers : RegisterHit(hits, b)}
        IN  IF j + Lanes * Unroll <= len
            THEN IF hit = {} THEN at[j + Lanes * Unroll]
                 ELSE FirstLane(hits, CHOOSE b \in hit : \A c \in hit : b <= c)
            ELSE IF j + Lanes <= len
            THEN IF RegisterHit(hits, j) THEN FirstLane(hits, j) ELSE at[j + Lanes]
            ELSE len + 1
  IN  at[start]

(* The vector loops: a turn looks at Unroll registers, then at one, and    *)
(* the scalar loop has the rest.                                           *)
VectorMatch(hits, start) ==
  LET len == Len(hits)
      at[j \in start .. len + 1] ==
        LET registers == {j + Lanes * r : r \in 0 .. Unroll - 1}
            hit       == {b \in registers : RegisterHit(hits, b)}
        IN  IF j + Lanes * Unroll <= len + 1
            THEN IF hit = {} THEN at[j + Lanes * Unroll]
                 ELSE FirstLane(hits, CHOOSE b \in hit : \A c \in hit : b <= c)
            ELSE IF j + Lanes <= len + 1
            THEN IF RegisterHit(hits, j) THEN FirstLane(hits, j) ELSE at[j + Lanes]
            ELSE ScalarMatch(hits, j)
  IN  at[start]

(* find_sev_match and find_sev_superset_match, in a build with AVX2.       *)
FindSevMatch(sevs, sev, start) == VectorMatch(SubsetHits(sevs, sev), start)
FindSevSupersetMatch(sevs, mask, start) == VectorMatch(SupersetHits(sevs, mask), start)

(* find_divisor_idx: from one entry that passes the filter to the next     *)
(* until an active one divides m; Len(polys) + 1 stands for None.          *)
FindDivisorIdx(polys, redundant, m) ==
  LET sevs == [i \in DOMAIN polys |-> Sev(LM(polys[i]))]
      len  == Len(polys)
      from[start \in 1 .. len + 1] ==
        LET idx == FindSevMatch(sevs, Sev(m), start)
        IN  IF idx > len THEN len + 1
            ELSE IF ~redundant[idx] /\ Divides(LM(polys[idx]), m) THEN idx
            ELSE from[idx + 1]
  IN  from[1]

(* Phase 1 of chain_crit_normal: the positions of the candidates b that    *)
(* the sweep marks.  A marked candidate marks no other one.                *)
MarkedBy(b, i, marked) ==
  LET sevs == [k \in DOMAIN b |-> Sev(b[k].lcm)]
      len  == Len(b)
      kills(j) == /\ j # i /\ j \notin marked
                  /\ IF b[j].lcm = b[i].lcm THEN j > i ELSE Divides(b[i].lcm, b[j].lcm)
      from[start \in 1 .. len + 1] ==
        LET j == FindSevSupersetMatch(sevs, Sev(b[i].lcm), start)
        IN  IF j > len THEN {} ELSE {k \in {j} : kills(k)} \cup from[j + 1]
  IN  from[1]

ChainSweep(b) ==
  LET upto[i \in 0 .. Len(b)] ==
        IF i = 0 THEN {}
        ELSE LET marked == upto[i - 1]
             IN  IF i \in marked THEN marked ELSE marked \cup MarkedBy(b, i, marked)
  IN  upto[Len(b)]
=============================================================================
