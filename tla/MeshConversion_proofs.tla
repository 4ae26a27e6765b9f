------------------------ MODULE MeshConversion_proofs ------------------------
(***************************************************************************)
(* Proofs about MeshConversion, for meshes of any number of vertices and   *)
(* faces: what a message leaves of a mesh, whatever object it is put into. *)
(***************************************************************************)
EXTENDS MeshConversion, Induction

LEMMA Appended ==
    ASSUME NEW S, NEW s \in Seq(S), NEW e \in S
    PROVE  /\ Append(s, e) \in Seq(S)
           /\ Len(Append(s, e)) = Len(s) + 1 /\ Len(s) \in Nat
           /\ DOMAIN Append(s, e) = DOMAIN s \cup {Len(s) + 1}
           /\ Len(s) + 1 \notin DOMAIN s
           /\ \A i \in DOMAIN s : Append(s, e)[i] = s[i]
           /\ Append(s, e)[Len(s) + 1] = e
OBVIOUS

LEMMA Joined ==
    ASSUME NEW S, NEW s \in Seq(S), NEW t \in Seq(S)
    PROVE  /\ s \o t \in Seq(S)
           /\ Len(s \o t) = Len(s) + Len(t) /\ Len(s) \in Nat /\ Len(t) \in Nat
           /\ \A i \in 1 .. Len(s) : (s \o t)[i] = s[i]
           /\ \A i \in 1 .. Len(t) : (s \o t)[Len(s) + i] = t[i]
OBVIOUS

LEMMA SameSequence ==
    ASSUME NEW S, NEW s \in Seq(S), NEW t \in Seq(S), Len(s) = Len(t),
           \A i \in 1 .. Len(t) : s[i] = t[i]
    PROVE  s = t
<1>1. s = [i \in 1 .. Len(t) |-> s[i]] /\ t = [i \in 1 .. Len(t) |-> t[i]]
  OBVIOUS
<1> QED
  BY <1>1

Behind(s, t, F, N) == [i \in 1 .. F + N |-> IF i <= F THEN s[i] ELSE t[i - F]]

LEMMA JoinedFunctions ==
    ASSUME NEW V, NEW F \in Nat, NEW N \in Nat, NEW s \in [1 .. F -> V], NEW t \in [1 .. N -> V]
    PROVE  s \o t = Behind(s, t, F, N)
<1> DEFINE r == s \o t
<1>1. s \in Seq(V) /\ Len(s) = F
  OBVIOUS
<1>2. t \in Seq(V) /\ Len(t) = N
  OBVIOUS
<1>3. r \in Seq(V) /\ Len(r) = F + N
  BY <1>1, <1>2, Joined
<1>4. \A i \in 1 .. F + N : i <= F => r[i] = s[i]
  BY <1>1, <1>2, Joined
<1>5. \A i \in 1 .. F + N : ~(i <= F) => r[i] = t[i - F]
  <2> SUFFICES ASSUME NEW i \in 1 .. F + N, ~(i <= F)
               PROVE  r[i] = t[i - F]
    OBVIOUS
  <2>1. i - F \in 1 .. N /\ F + (i - F) = i
    OBVIOUS
  <2> QED
    BY <1>1, <1>2, <2>1, Joined
<1> HIDE DEF r
<1>6. r = [i \in 1 .. F + N |-> r[i]]
  BY <1>3
<1>7. r = Behind(s, t, F, N)
  BY <1>4, <1>5, <1>6 DEF Behind
<1> QED
  BY <1>7 DEF r

\* A mesh whose faces name vertices that it has.
WellFormed(m) ==
    /\ m \in Mesh
    /\ \A f \in DOMAIN m.faces : \A k \in DOMAIN m.faces[f] :
          m.faces[f][k] \in 0 .. Len(m.points) - 1

LEMMA MeshParts ==
    ASSUME NEW m \in Mesh
    PROVE  /\ m.points \in Seq(Point) /\ Len(m.points) \in Nat
           /\ DOMAIN m.points = 1 .. Len(m.points)
           /\ m.faces \in Seq(Seq(Nat)) /\ Len(m.faces) \in Nat
           /\ DOMAIN m.faces = 1 .. Len(m.faces)
           /\ \A f \in DOMAIN m.faces : /\ m.faces[f] \in Seq(Nat) /\ Len(m.faces[f]) \in Nat
                                        /\ DOMAIN m.faces[f] = 1 .. Len(m.faces[f])
<1>1. m.points \in Seq(Point) /\ m.faces \in Seq(Seq(Nat))
  BY DEF Mesh
<1> QED
  BY <1>1

MeshWith(p, q, F, h) == [points |-> p \o q, faces |-> Append(F, h)]

\* r is a mesh of the points p and q and of the faces F and h.
IsMeshWith(r, p, q, F, h) ==
    /\ r \in Mesh
    /\ Len(r.points) = Len(p) + Len(q)
    /\ \A i \in 1 .. Len(p) : r.points[i] = p[i]
    /\ \A k \in 1 .. Len(q) : r.points[Len(p) + k] = q[k]
    /\ Len(r.faces) = Len(F) + 1
    /\ \A f \in 1 .. Len(F) : r.faces[f] = F[f]
    /\ r.faces[Len(F) + 1] = h

LEMMA MeshWithType ==
    ASSUME NEW p \in Seq(Point), NEW q \in Seq(Point),
           NEW F \in Seq(Seq(Nat)), NEW h \in Seq(Nat)
    PROVE  IsMeshWith(MeshWith(p, q, F, h), p, q, F, h)
<1> DEFINE r == MeshWith(p, q, F, h)
<1>1. r.points = p \o q /\ r.faces = Append(F, h)
  BY DEF MeshWith
<1>2. DOMAIN F = 1 .. Len(F)
  OBVIOUS
<1>3. r \in Mesh
  BY Joined, Appended DEF Mesh, MeshWith
<1> HIDE DEF r
<1>4. IsMeshWith(r, p, q, F, h)
  BY <1>1, <1>2, <1>3, Joined, Appended DEF IsMeshWith
<1> QED
  BY <1>4 DEF r

\* r is m with one more face, the g-th of new, on vertices of its own.
IsFaceAdded(r, m, new, g) ==
    /\ r \in Mesh
    /\ Len(r.points) = Len(m.points) + Len(new.faces[g])
    /\ \A i \in 1 .. Len(m.points) : r.points[i] = m.points[i]
    /\ \A k \in 1 .. Len(new.faces[g]) :
          r.points[Len(m.points) + k] = new.points[new.faces[g][k] + 1]
    /\ Len(r.faces) = Len(m.faces) + 1
    /\ \A f \in 1 .. Len(m.faces) : r.faces[f] = m.faces[f]
    /\ r.faces[Len(m.faces) + 1]
         = [k \in 1 .. Len(new.faces[g]) |-> Len(m.points) + k - 1]

LEMMA FaceAdded ==
    ASSUME NEW m \in Mesh, NEW new, WellFormed(new), NEW g \in DOMAIN new.faces
    PROVE  IsFaceAdded(AddFace(m, SerializeModel(new), new.faces[g]), m, new, g)
<1> DEFINE face == new.faces[g]
           wire == SerializeModel(new)
           more == [k \in DOMAIN face |-> VertexAt(wire, face[k])]
           handles == [k \in DOMAIN face |-> Len(m.points) + k - 1]
           r == AddFace(m, wire, face)
<1>1. /\ new \in Mesh /\ face \in Seq(Nat) /\ Len(face) \in Nat
      /\ DOMAIN face = 1 .. Len(face)
      /\ \A k \in DOMAIN face : face[k] \in 0 .. Len(new.points) - 1
      /\ new.points \in Seq(Point) /\ Len(new.points) \in Nat
  BY MeshParts DEF WellFormed
<1>2. /\ m.points \in Seq(Point) /\ Len(m.points) \in Nat
      /\ m.faces \in Seq(Seq(Nat)) /\ Len(m.faces) \in Nat
  BY MeshParts
<1>3. \A k \in 1 .. Len(face) : /\ VertexAt(wire, face[k]) = new.points[face[k] + 1]
                                /\ new.points[face[k] + 1] \in Point
  <2> TAKE k \in 1 .. Len(face)
  <2>1. face[k] < Len(new.points) /\ face[k] + 1 \in 1 .. Len(new.points)
    BY <1>1
  <2> QED
    BY <1>1, <2>1 DEF VertexAt, SerializeModel
<1> HIDE DEF face, wire
<1>4. more \in Seq(Point) /\ Len(more) = Len(face)
  BY <1>1, <1>3
<1>5. handles \in Seq(Nat) /\ Len(handles) = Len(face)
      /\ handles = [k \in 1 .. Len(face) |-> Len(m.points) + k - 1]
  BY <1>1, <1>2
<1>6. \A k \in 1 .. Len(face) : more[k] = new.points[face[k] + 1]
  BY <1>1, <1>3
<1>7. r = MeshWith(m.points, more, m.faces, handles)
  BY DEF AddFace, MeshWith
<1> HIDE DEF more, handles, r
<1>8. /\ m.points \in Seq(Point) /\ more \in Seq(Point)
      /\ m.faces \in Seq(Seq(Nat)) /\ handles \in Seq(Nat)
  BY <1>2, <1>4, <1>5
<1>9. IsMeshWith(r, m.points, more, m.faces, handles)
  BY <1>7, <1>8, MeshWithType
<1>10. IsFaceAdded(r, m, new, g)
  BY <1>1, <1>4, <1>5, <1>6, <1>9 DEF face, IsMeshWith, IsFaceAdded
<1> QED
  BY <1>10 DEF r, wire, face

\* The meshes that deserializeModel goes through, from the one it was given.
IsRun(after, old, new) ==
    /\ after \in [0 .. Len(new.faces) -> Mesh]
    /\ after[0] = old
    /\ \A n \in 1 .. Len(new.faces) : IsFaceAdded(after[n], after[n - 1], new, n)

\* The function that DeserializeModel is defined by.
IsAfter(after, mesh, wire) ==
    after = [n \in 0 .. Len(wire.face) |->
               IF n = 0 THEN mesh ELSE AddFace(after[n - 1], wire, wire.face[n])]

LEMMA DeserializeModelChoice ==
    ASSUME NEW mesh, NEW wire, \E after : IsAfter(after, mesh, wire)
    PROVE  \E after : /\ IsAfter(after, mesh, wire)
                      /\ DeserializeModel(mesh, wire) = after[Len(wire.face)]
<1> DEFINE g == CHOOSE after : IsAfter(after, mesh, wire)
<1>1. IsAfter(g, mesh, wire)
  BY Zenon
<1>2. DeserializeModel(mesh, wire) = g[Len(wire.face)]
  BY DEF DeserializeModel, IsAfter
<1> QED
  BY <1>1, <1>2

LEMMA Deserialized ==
    ASSUME NEW old \in Mesh, NEW new, WellFormed(new)
    PROVE  \E after : /\ IsRun(after, old, new)
                      /\ DeserializeModel(old, SerializeModel(new)) = after[Len(new.faces)]
<1> DEFINE N == Len(new.faces)
           wire == SerializeModel(new)
           step == [n \in 1 .. N |-> [m \in Mesh |-> AddFace(m, wire, new.faces[n])]]
<1>1. N \in Nat /\ DOMAIN new.faces = 1 .. N /\ wire.face = new.faces
  BY MeshParts DEF WellFormed, SerializeModel
<1>2. \A n \in 1 .. N : \A m \in Mesh :
         IsFaceAdded(AddFace(m, wire, new.faces[n]), m, new, n)
  BY <1>1, FaceAdded
<1>3. \A n \in 1 .. N : \A m \in Mesh : AddFace(m, wire, new.faces[n]) \in Mesh
  BY <1>2 DEF IsFaceAdded
<1> HIDE DEF N, wire
<1>4. \E after : IsAfter(after, old, wire)
  <2>1. step \in [1 .. N -> [Mesh -> Mesh]]
    BY <1>3
  <2>2. \A n \in 1 .. N : \A m \in Mesh : step[n][m] = AddFace(m, wire, new.faces[n])
    OBVIOUS
  <2> HIDE DEF step
  <2>3. PICK f \in [0 .. N -> Mesh] : IsRecursive(f, N, old, step)
    BY <1>1, <2>1, IntervalRecursion
  <2>4. \A n \in 0 .. N : f[n] = IF n = 0 THEN old ELSE AddFace(f[n - 1], wire, new.faces[n])
    <3> SUFFICES ASSUME NEW n \in 1 .. N
                 PROVE  f[n] = AddFace(f[n - 1], wire, new.faces[n])
      BY <1>1, <2>3 DEF IsRecursive
    <3>1. f[n - 1] \in Mesh
      BY <1>1, <2>3
    <3> QED
      BY <2>2, <2>3, <3>1 DEF IsRecursive
  <2>5. IsAfter(f, old, wire)
    BY <1>1, <2>3, <2>4 DEF IsAfter, N
  <2> QED
    BY <2>5
<1>5. PICK after : /\ IsAfter(after, old, wire)
                   /\ DeserializeModel(old, wire) = after[Len(wire.face)]
  BY <1>4, DeserializeModelChoice
<1>6. /\ after = [n \in 0 .. N |-> after[n]] /\ after[0] = old
      /\ \A n \in 1 .. N : after[n] = AddFace(after[n - 1], wire, new.faces[n])
  BY <1>1, <1>5 DEF IsAfter, N
<1>7. \A n \in 0 .. N : after[n] \in Mesh
  <2> DEFINE P == {n \in 0 .. N : after[n] \in Mesh}
  <2>1. 0 \in P
    BY <1>1, <1>6
  <2>2. ASSUME NEW n \in 0 .. N - 1, n \in P
        PROVE  n + 1 \in P
    <3>1. n + 1 \in 1 .. N /\ (n + 1) - 1 = n
      BY <1>1
    <3>2. after[n + 1] = AddFace(after[n], wire, new.faces[n + 1])
      BY <1>6, <3>1
    <3> QED
      BY <1>3, <2>2, <3>1, <3>2
  <2> HIDE DEF P
  <2>3. 0 .. N \subseteq P
    BY <1>1, <2>1, <2>2, IntervalInduction
  <2> QED
    BY <2>3 DEF P
<1>8. \A n \in 1 .. N : IsFaceAdded(after[n], after[n - 1], new, n)
  <2> TAKE n \in 1 .. N
  <2>1. after[n - 1] \in Mesh
    BY <1>1, <1>7
  <2> QED
    BY <1>2, <1>6, <2>1
<1>9. after \in [0 .. N -> Mesh]
  BY <1>6, <1>7
<1> QED
  BY <1>1, <1>5, <1>6, <1>8, <1>9 DEF IsRun, N, wire


----------------------------------------------------------------------------
(* Polygons. *)

PolygonOf(m, f) == [k \in DOMAIN m.faces[f] |-> m.points[m.faces[f][k] + 1]]

\* r has the polygons of m and behind them the g-th of new.
HasPolygonMore(r, m, new, g) ==
    /\ WellFormed(r)
    /\ Len(r.faces) = Len(m.faces) + 1
    /\ \A f \in 1 .. Len(m.faces) : PolygonOf(r, f) = PolygonOf(m, f)
    /\ PolygonOf(r, Len(m.faces) + 1) = PolygonOf(new, g)

LEMMA PolygonAdded ==
    ASSUME NEW m, NEW new, NEW r, WellFormed(m), WellFormed(new),
           NEW g \in DOMAIN new.faces, IsFaceAdded(r, m, new, g)
    PROVE  HasPolygonMore(r, m, new, g)
<1> DEFINE P == Len(m.points)
           F == Len(m.faces)
           face == new.faces[g]
           L == Len(face)
<1>1. /\ m \in Mesh /\ P \in Nat /\ F \in Nat /\ DOMAIN m.faces = 1 .. F
      /\ \A f \in 1 .. F : \A k \in DOMAIN m.faces[f] : m.faces[f][k] \in 0 .. P - 1
  BY MeshParts DEF WellFormed
<1>2. face \in Seq(Nat) /\ L \in Nat /\ DOMAIN face = 1 .. L
  BY MeshParts DEF WellFormed
<1>3. /\ r \in Mesh /\ DOMAIN r.faces = 1 .. Len(r.faces)
      /\ Len(r.points) = P + L
      /\ \A i \in 1 .. P : r.points[i] = m.points[i]
      /\ \A k \in 1 .. L : r.points[P + k] = new.points[face[k] + 1]
      /\ Len(r.faces) = F + 1
      /\ \A f \in 1 .. F : r.faces[f] = m.faces[f]
      /\ r.faces[F + 1] = [k \in 1 .. L |-> P + k - 1]
  BY MeshParts DEF IsFaceAdded
<1> HIDE DEF P, F, L, face
<1>4. ASSUME NEW f \in 1 .. F
      PROVE  /\ \A k \in DOMAIN r.faces[f] : r.faces[f][k] \in 0 .. P + L - 1
             /\ PolygonOf(r, f) = PolygonOf(m, f)
  <2>1. /\ r.faces[f] = m.faces[f]
        /\ \A k \in DOMAIN m.faces[f] : m.faces[f][k] \in 0 .. P - 1
    BY <1>1, <1>3
  <2>2. \A k \in DOMAIN m.faces[f] : m.faces[f][k] + 1 \in 1 .. P
    BY <1>1, <2>1
  <2>3. \A k \in DOMAIN m.faces[f] :
           r.points[m.faces[f][k] + 1] = m.points[m.faces[f][k] + 1]
    BY <1>3, <2>2
  <2> QED
    BY <1>1, <1>2, <2>1, <2>3 DEF PolygonOf
<1>5. /\ \A k \in DOMAIN r.faces[F + 1] : r.faces[F + 1][k] \in 0 .. P + L - 1
      /\ PolygonOf(r, F + 1) = PolygonOf(new, g)
  <2>1. \A k \in 1 .. L : /\ r.faces[F + 1][k] = P + k - 1
                          /\ (P + k - 1) + 1 = P + k
    BY <1>1, <1>2, <1>3
  <2>2. DOMAIN r.faces[F + 1] = 1 .. L
    BY <1>3
  <2>3. \A k \in 1 .. L : r.points[r.faces[F + 1][k] + 1] = new.points[face[k] + 1]
    BY <1>3, <2>1
  <2>4. PolygonOf(r, F + 1) = [k \in 1 .. L |-> new.points[face[k] + 1]]
    BY <2>2, <2>3 DEF PolygonOf
  <2> QED
    BY <1>1, <1>2, <2>1, <2>2, <2>4 DEF PolygonOf, face
<1>6. \A f \in DOMAIN r.faces : f \in 1 .. F \/ f = F + 1
  BY <1>1, <1>3
<1>7. WellFormed(r)
  <2>1. \A f \in DOMAIN r.faces : \A k \in DOMAIN r.faces[f] :
           r.faces[f][k] \in 0 .. P + L - 1
    BY <1>4, <1>5, <1>6
  <2>2. r \in Mesh /\ Len(r.points) = P + L
    BY <1>3
  <2>3. \A f \in DOMAIN r.faces : \A k \in DOMAIN r.faces[f] :
           r.faces[f][k] \in 0 .. Len(r.points) - 1
    <3> DEFINE Q == Len(r.points)
    <3>1. Q - 1 = P + L - 1
      BY <1>1, <1>2, <2>2
    <3> HIDE DEF Q
    <3>2. \A f \in DOMAIN r.faces : \A k \in DOMAIN r.faces[f] :
             r.faces[f][k] \in 0 .. Q - 1
      BY <2>1, <3>1, Zenon
    <3> QED
      BY <3>2 DEF Q
  <2> QED
    BY <2>2, <2>3, Zenon DEF WellFormed
<1> QED
  BY <1>3, <1>4, <1>5, <1>7 DEF HasPolygonMore, F

\* m has the polygons of old and behind them the first n of new.
HasPolygons(m, old, new, n) ==
    /\ WellFormed(m)
    /\ Len(m.faces) = Len(old.faces) + n
    /\ \A f \in 1 .. Len(old.faces) : PolygonOf(m, f) = PolygonOf(old, f)
    /\ \A g \in 1 .. n : PolygonOf(m, Len(old.faces) + g) = PolygonOf(new, g)

LEMMA PolygonsOfRun ==
    ASSUME NEW old, NEW new, WellFormed(old), WellFormed(new),
           NEW after, IsRun(after, old, new)
    PROVE  HasPolygons(after[Len(new.faces)], old, new, Len(new.faces))
<1> DEFINE N == Len(new.faces)
           S == {n \in 0 .. N : HasPolygons(after[n], old, new, n)}
<1>1. /\ N \in Nat /\ DOMAIN new.faces = 1 .. N
      /\ Len(old.faces) \in Nat
  BY MeshParts DEF WellFormed
<1>2. after[0] = old /\ \A n \in 1 .. N : IsFaceAdded(after[n], after[n - 1], new, n)
  BY DEF IsRun
<1> HIDE DEF N
<1>3. 0 \in S
  BY <1>1, <1>2 DEF HasPolygons
<1>4. ASSUME NEW n \in 0 .. N - 1, n \in S
      PROVE  n + 1 \in S
  <2>1. n + 1 \in 1 .. N /\ (n + 1) - 1 = n /\ n \in Nat
    BY <1>1
  <2>2. HasPolygons(after[n], old, new, n)
    BY <1>4
  <2>3. WellFormed(after[n])
    BY <2>2 DEF HasPolygons
  <2>4. HasPolygonMore(after[n + 1], after[n], new, n + 1)
    <3>1. IsFaceAdded(after[n + 1], after[n], new, n + 1)
      BY <1>2, <2>1
    <3>2. n + 1 \in DOMAIN new.faces
      BY <1>1, <2>1
    <3> QED
      BY <2>3, <3>1, <3>2, PolygonAdded
  <2> DEFINE a == after[n]
             b == after[n + 1]
             F == Len(old.faces)
  <2>5. /\ Len(a.faces) = F + n
        /\ \A f \in 1 .. F : PolygonOf(a, f) = PolygonOf(old, f)
        /\ \A g \in 1 .. n : PolygonOf(a, F + g) = PolygonOf(new, g)
    BY <2>2 DEF HasPolygons
  <2>6. /\ WellFormed(b) /\ Len(b.faces) = Len(a.faces) + 1
        /\ \A f \in 1 .. Len(a.faces) : PolygonOf(b, f) = PolygonOf(a, f)
        /\ PolygonOf(b, Len(a.faces) + 1) = PolygonOf(new, n + 1)
    BY <2>4 DEF HasPolygonMore
  <2>7. F \in Nat
    BY <1>1
  <2> HIDE DEF a, b, F
  <2>8. \A f \in 1 .. F : PolygonOf(b, f) = PolygonOf(old, f)
    BY <2>1, <2>5, <2>6, <2>7
  <2>9. \A g \in 1 .. n + 1 : PolygonOf(b, F + g) = PolygonOf(new, g)
    <3> TAKE g \in 1 .. n + 1
    <3>1. CASE g = n + 1
      BY <2>1, <2>5, <2>6, <2>7, <3>1
    <3>2. CASE g \in 1 .. n
      <4>1. F + g \in 1 .. F + n
        BY <2>1, <2>7, <3>2
      <4> QED
        BY <2>5, <2>6, <3>2, <4>1
    <3> QED
      BY <2>1, <3>1, <3>2
  <2>10. Len(b.faces) = F + (n + 1)
    BY <2>1, <2>5, <2>6, <2>7
  <2>11. HasPolygons(b, old, new, n + 1)
    BY <2>6, <2>8, <2>9, <2>10 DEF HasPolygons, F
  <2> QED
    BY <2>1, <2>11, <1>1 DEF b
<1> HIDE DEF S
<1>5. 0 .. N \subseteq S
  BY <1>1, <1>3, <1>4, IntervalInduction
<1> QED
  BY <1>1, <1>5 DEF S, N

\* A message puts its polygons behind those that a mesh has.
LEMMA PolygonsBehind ==
    ASSUME NEW old, NEW new, WellFormed(old), WellFormed(new)
    PROVE  /\ WellFormed(DeserializeModel(old, SerializeModel(new)))
           /\ Polygons(DeserializeModel(old, SerializeModel(new)))
                = Polygons(old) \o Polygons(new)
<1> DEFINE m == DeserializeModel(old, SerializeModel(new))
           F == Len(old.faces)
           N == Len(new.faces)
<1>1. old \in Mesh
  BY DEF WellFormed
<1>2. PICK after : IsRun(after, old, new) /\ m = after[N]
  BY <1>1, Deserialized
<1>3. HasPolygons(m, old, new, N)
  BY <1>2, PolygonsOfRun
<1>4. WellFormed(m)
  BY <1>3 DEF HasPolygons
<1>5. /\ F \in Nat /\ DOMAIN old.faces = 1 .. F
      /\ N \in Nat /\ DOMAIN new.faces = 1 .. N
      /\ DOMAIN m.faces = 1 .. Len(m.faces)
  BY <1>4, MeshParts DEF WellFormed
<1>6. /\ Len(m.faces) = F + N
      /\ \A f \in 1 .. F : PolygonOf(m, f) = PolygonOf(old, f)
      /\ \A g \in 1 .. N : PolygonOf(m, F + g) = PolygonOf(new, g)
  BY <1>3 DEF HasPolygons
<1>7. \A x : Polygons(x) = [f \in DOMAIN x.faces |-> PolygonOf(x, f)]
  BY DEF Polygons, PolygonOf
<1> HIDE DEF m, F, N
<1>8. /\ Polygons(m) = [f \in 1 .. F + N |-> PolygonOf(m, f)]
      /\ Polygons(old) = [f \in 1 .. F |-> PolygonOf(old, f)]
      /\ Polygons(new) = [g \in 1 .. N |-> PolygonOf(new, g)]
  BY <1>5, <1>6, <1>7
<1>9. \A f \in 1 .. F + N : f \in 1 .. F \/ (f - F \in 1 .. N /\ F + (f - F) = f)
  BY <1>5
<1>10. \A f \in 1 .. F + N : PolygonOf(m, f) = IF f <= F THEN PolygonOf(old, f)
                                                        ELSE PolygonOf(new, f - F)
  BY <1>5, <1>6, <1>9
<1>11. Polygons(m) = Polygons(old) \o Polygons(new)
  <2> DEFINE V == {PolygonOf(old, f) : f \in 1 .. F} \cup {PolygonOf(new, g) : g \in 1 .. N}
  <2>1. Polygons(old) \in [1 .. F -> V]
    BY <1>8
  <2>4. Polygons(new) \in [1 .. N -> V]
    BY <1>8
  <2> HIDE DEF V
  <2>5. F \in Nat /\ N \in Nat
    BY <1>5
  <2>2. Polygons(old) \o Polygons(new) = Behind(Polygons(old), Polygons(new), F, N)
    BY <2>1, <2>4, <2>5, JoinedFunctions
  <2>3. \A f \in 1 .. F + N :
          (IF f <= F THEN Polygons(old)[f] ELSE Polygons(new)[f - F]) = PolygonOf(m, f)
    BY <1>5, <1>8, <1>9, <1>10
  <2> QED
    BY <1>8, <2>2, <2>3 DEF Behind
<1> QED
  BY <1>4, <1>11 DEF m

LEMMA EmptyMeshType == WellFormed(EmptyMesh) /\ EmptyMesh.faces = <<>> /\ EmptyMesh.points = <<>>
<1>1. \A S : <<>> \in Seq(S)
  OBVIOUS
<1> QED
  BY <1>1 DEF WellFormed, EmptyMesh, Mesh

LEMMA MeshesType == \A mesh \in Meshes : WellFormed(mesh)
BY MeshConversionAssumption DEF WellFormed

LEMMA MeshObjectsType == \A mesh \in MeshObjects : WellFormed(mesh)
BY PolygonsBehind, MeshesType, EmptyMeshType DEF MeshObjects, Trip

\* Whatever a mesh object holds, the polygons of any message come out of
\* deserializeModel behind those it had: PolygonsKept of ServiceProvide for
\* every mesh object there can be.
THEOREM AllKeep == Keeping = MeshObjects
BY PolygonsBehind, MeshesType, MeshObjectsType DEF Keeping


----------------------------------------------------------------------------
(* Meshes that a message leaves as they are. *)

\* The vertices of the faces follow each other: those of face f are the handles
\* from off[f] to before off[f + 1], and these are all vertices.
IsNumbering(off, m) ==
    /\ off \in [1 .. Len(m.faces) + 1 -> Nat]
    /\ off[1] = 0 /\ off[Len(m.faces) + 1] = Len(m.points)
    /\ \A f \in 1 .. Len(m.faces) :
          /\ off[f + 1] = off[f] + Len(m.faces[f])
          /\ m.faces[f] = [k \in 1 .. Len(m.faces[f]) |-> off[f] + k - 1]

Compact(m) == m \in Mesh /\ \E off : IsNumbering(off, m)

LEMMA EmptyIsCompact == Compact(EmptyMesh)
<1> DEFINE off == [f \in 1 .. 1 |-> 0]
<1>1. EmptyMesh \in Mesh /\ EmptyMesh.faces = <<>> /\ EmptyMesh.points = <<>>
  BY EmptyMeshType DEF WellFormed
<1>2. Len(EmptyMesh.faces) = 0 /\ Len(EmptyMesh.points) = 0
  BY <1>1
<1>3. off \in [1 .. 1 -> Nat] /\ off[1] = 0
  OBVIOUS
<1> HIDE DEF off
<1>4. IsNumbering(off, EmptyMesh)
  BY <1>2, <1>3 DEF IsNumbering
<1> QED
  BY <1>1, <1>4 DEF Compact

LEMMA CompactAdded ==
    ASSUME NEW m, NEW new, NEW r, Compact(m), WellFormed(new),
           NEW g \in DOMAIN new.faces, IsFaceAdded(r, m, new, g)
    PROVE  Compact(r)
<1> DEFINE P == Len(m.points)
           F == Len(m.faces)
           L == Len(new.faces[g])
<1>1. m \in Mesh /\ P \in Nat /\ F \in Nat
  BY MeshParts DEF Compact
<1>2. L \in Nat
  BY MeshParts DEF WellFormed
<1>3. PICK off : IsNumbering(off, m)
  BY DEF Compact
<1>4. /\ off \in [1 .. F + 1 -> Nat] /\ off[1] = 0 /\ off[F + 1] = P
      /\ \A f \in 1 .. F : /\ off[f + 1] = off[f] + Len(m.faces[f])
                           /\ m.faces[f] = [k \in 1 .. Len(m.faces[f]) |-> off[f] + k - 1]
  BY <1>3 DEF IsNumbering
<1>5. /\ r \in Mesh
      /\ Len(r.points) = P + L
      /\ Len(r.faces) = F + 1
      /\ \A f \in 1 .. F : r.faces[f] = m.faces[f]
      /\ r.faces[F + 1] = [k \in 1 .. L |-> P + k - 1]
  BY DEF IsFaceAdded
<1> HIDE DEF P, F, L
<1> DEFINE more == [f \in 1 .. F + 2 |-> IF f = F + 2 THEN P + L ELSE off[f]]
<1>6. /\ more \in [1 .. F + 2 -> Nat] /\ more[F + 2] = P + L
      /\ \A f \in 1 .. F + 1 : more[f] = off[f]
  BY <1>1, <1>2, <1>4
<1> HIDE DEF more
<1>7. Len(r.faces[F + 1]) = L
  <2>1. \A h : h = [k \in 1 .. L |-> P + k - 1] => Len(h) = L
    BY <1>1, <1>2
  <2> QED
    BY <1>5, <2>1
<1>8. ASSUME NEW f \in 1 .. F
      PROVE  /\ more[f + 1] = more[f] + Len(r.faces[f])
             /\ r.faces[f] = [k \in 1 .. Len(r.faces[f]) |-> more[f] + k - 1]
  <2>1. f \in 1 .. F + 1 /\ f + 1 \in 1 .. F + 1
    BY <1>1
  <2>2. more[f] = off[f] /\ more[f + 1] = off[f + 1] /\ r.faces[f] = m.faces[f]
    BY <1>5, <1>6, <2>1
  <2> QED
    BY <1>4, <2>2
<1>9. /\ more[(F + 1) + 1] = more[F + 1] + Len(r.faces[F + 1])
      /\ r.faces[F + 1] = [k \in 1 .. Len(r.faces[F + 1]) |-> more[F + 1] + k - 1]
  <2>1. F + 1 \in 1 .. F + 1 /\ (F + 1) + 1 = F + 2
    BY <1>1
  <2>2. more[F + 1] = P
    BY <1>4, <1>6, <2>1
  <2> QED
    BY <1>5, <1>6, <1>7, <2>1, <2>2
<1>10. IsNumbering(more, r)
  <2>1. (F + 1) + 1 = F + 2 /\ 1 \in 1 .. F + 1
    BY <1>1
  <2>2. \A f \in 1 .. F + 1 : f \in 1 .. F \/ f = F + 1
    BY <1>1
  <2>3. \A f \in 1 .. F + 1 :
          /\ more[f + 1] = more[f] + Len(r.faces[f])
          /\ r.faces[f] = [k \in 1 .. Len(r.faces[f]) |-> more[f] + k - 1]
    BY <1>8, <1>9, <2>2
  <2>4. more[1] = 0 /\ more[F + 2] = Len(r.points)
    BY <1>4, <1>5, <1>6, <2>1
  <2> QED
    BY <1>5, <1>6, <2>1, <2>3, <2>4 DEF IsNumbering
<1> QED
  BY <1>5, <1>10 DEF Compact

LEMMA CompactOfRun ==
    ASSUME NEW old, NEW new, Compact(old), WellFormed(new),
           NEW after, IsRun(after, old, new)
    PROVE  Compact(after[Len(new.faces)])
<1> DEFINE N == Len(new.faces)
           S == {n \in 0 .. N : Compact(after[n])}
<1>1. N \in Nat /\ DOMAIN new.faces = 1 .. N
  BY MeshParts DEF WellFormed
<1>2. after[0] = old /\ \A n \in 1 .. N : IsFaceAdded(after[n], after[n - 1], new, n)
  BY DEF IsRun
<1> HIDE DEF N
<1>3. 0 \in S
  BY <1>1, <1>2
<1>4. ASSUME NEW n \in 0 .. N - 1, n \in S
      PROVE  n + 1 \in S
  <2>1. n + 1 \in 1 .. N /\ (n + 1) - 1 = n
    BY <1>1
  <2>2. IsFaceAdded(after[n + 1], after[n], new, n + 1) /\ n + 1 \in DOMAIN new.faces
    BY <1>1, <1>2, <2>1
  <2>3. Compact(after[n + 1])
    BY <1>4, <2>2, CompactAdded
  <2> QED
    BY <1>1, <2>1, <2>3
<1> HIDE DEF S
<1>5. 0 .. N \subseteq S
  BY <1>1, <1>3, <1>4, IntervalInduction
<1> QED
  BY <1>1, <1>5 DEF S, N

LEMMA CompactAfterwards ==
    ASSUME NEW old, NEW new, Compact(old), WellFormed(new)
    PROVE  Compact(DeserializeModel(old, SerializeModel(new)))
<1>1. old \in Mesh
  BY DEF Compact
<1> QED
  BY <1>1, Deserialized, CompactOfRun


\* A numbering numbers the faces upwards and gives each vertex to a face.
LEMMA NumberingUpwards ==
    ASSUME NEW m \in Mesh, NEW off, IsNumbering(off, m)
    PROVE  /\ \A f \in 1 .. Len(m.faces) : off[f + 1] <= Len(m.points)
           /\ \A i \in 0 .. Len(m.points) - 1 : \E f \in 1 .. Len(m.faces) :
                 off[f] <= i /\ i < off[f + 1]
<1> DEFINE N == Len(m.faces)
           S == {n \in 0 .. N : /\ \A f \in 1 .. n : off[f + 1] <= off[n + 1]
                                /\ \A i \in 0 .. off[n + 1] - 1 : \E f \in 1 .. n :
                                      off[f] <= i /\ i < off[f + 1]}
<1>1. /\ N \in Nat
      /\ off \in [1 .. N + 1 -> Nat] /\ off[1] = 0 /\ off[N + 1] = Len(m.points)
      /\ \A f \in 1 .. N : off[f + 1] = off[f] + Len(m.faces[f]) /\ Len(m.faces[f]) \in Nat
  BY MeshParts DEF IsNumbering
<1> HIDE DEF N
<1>2. \A f \in 1 .. N : off[f] \in Nat /\ off[f + 1] \in Nat /\ off[f] <= off[f + 1]
  <2> TAKE f \in 1 .. N
  <2>1. f \in 1 .. N + 1 /\ f + 1 \in 1 .. N + 1
    BY <1>1
  <2>2. off[f] \in Nat /\ off[f + 1] \in Nat
    BY <1>1, <2>1
  <2>3. off[f + 1] = off[f] + Len(m.faces[f]) /\ Len(m.faces[f]) \in Nat
    BY <1>1
  <2> QED
    BY <2>2, <2>3
<1>3. 0 \in S
  BY <1>1
<1>4. ASSUME NEW n \in 0 .. N - 1, n \in S
      PROVE  n + 1 \in S
  <2> DEFINE a == off[n + 1]
             b == off[n + 2]
  <2>1. n + 1 \in 1 .. N /\ (n + 1) + 1 = n + 2 /\ n \in Nat
    BY <1>1
  <2>2. a \in Nat /\ b \in Nat /\ a <= b
    BY <1>2, <2>1
  <2>3. /\ \A f \in 1 .. n : off[f + 1] <= a
        /\ \A i \in 0 .. a - 1 : \E f \in 1 .. n : off[f] <= i /\ i < off[f + 1]
    BY <1>4
  <2>4. \A f \in 1 .. n + 1 : f \in 1 .. n \/ f = n + 1
    BY <2>1
  <2>5. \A f \in 1 .. n : f \in 1 .. N /\ f \in 1 .. n + 1
    BY <1>1, <2>1
  <2>6. \A f \in 1 .. n + 1 : off[f + 1] <= b
    <3> TAKE f \in 1 .. n + 1
    <3>1. CASE f = n + 1
      BY <2>1, <2>2, <3>1
    <3>2. CASE f \in 1 .. n
      <4>1. off[f + 1] <= a /\ off[f + 1] \in Nat
        BY <1>2, <2>3, <2>5, <3>2
      <4> QED
        BY <2>2, <4>1
    <3> QED
      BY <2>4, <3>1, <3>2
  <2>7. \A i \in 0 .. b - 1 : \E f \in 1 .. n + 1 : off[f] <= i /\ i < off[f + 1]
    <3> TAKE i \in 0 .. b - 1
    <3>1. CASE i < a
      <4>1. i \in 0 .. a - 1
        BY <2>2, <3>1
      <4> QED
        BY <2>3, <2>5, <4>1
    <3>2. CASE ~(i < a)
      <4>1. a <= i /\ i < b
        BY <2>2, <3>2
      <4>2. n + 1 \in 1 .. n + 1
        BY <2>1
      <4> QED
        BY <2>1, <4>1, <4>2
    <3> QED
      BY <3>1, <3>2
  <2> QED
    BY <1>1, <2>1, <2>6, <2>7
<1> HIDE DEF S
<1>5. 0 .. N \subseteq S
  BY <1>1, <1>3, <1>4, IntervalInduction
<1>6. N \in S
  BY <1>1, <1>5
<1> QED
  BY <1>1, <1>6 DEF S, N

LEMMA CornersOfCompact ==
    ASSUME NEW m, Compact(m)
    PROVE  WellFormed(m) /\ Corners(m) = 0 .. Len(m.points) - 1
<1> DEFINE N == Len(m.faces)
           P == Len(m.points)
<1>1. /\ m \in Mesh /\ N \in Nat /\ P \in Nat /\ DOMAIN m.faces = 1 .. N
      /\ \A f \in 1 .. N : Len(m.faces[f]) \in Nat
  BY MeshParts DEF Compact
<1>2. PICK off : IsNumbering(off, m)
  BY DEF Compact
<1>3. /\ off \in [1 .. N + 1 -> Nat]
      /\ \A f \in 1 .. N : /\ off[f + 1] = off[f] + Len(m.faces[f])
                           /\ m.faces[f] = [k \in 1 .. Len(m.faces[f]) |-> off[f] + k - 1]
  BY <1>2 DEF IsNumbering
<1>4. /\ \A f \in 1 .. N : off[f + 1] <= P
      /\ \A i \in 0 .. P - 1 : \E f \in 1 .. N : off[f] <= i /\ i < off[f + 1]
  BY <1>1, <1>2, NumberingUpwards
<1> HIDE DEF N, P
<1>5. ASSUME NEW f \in 1 .. N
      PROVE  /\ off[f] \in Nat
             /\ Range(m.faces[f]) = off[f] .. off[f + 1] - 1
             /\ \A k \in DOMAIN m.faces[f] : m.faces[f][k] \in 0 .. P - 1
  <2> DEFINE L == Len(m.faces[f])
             h == m.faces[f]
  <2>1. off[f] \in Nat /\ L \in Nat
    BY <1>1, <1>3
  <2>2. off[f + 1] = off[f] + L /\ off[f + 1] <= P
    BY <1>3, <1>4
  <2>3. h = [k \in 1 .. L |-> off[f] + k - 1]
    BY <1>3
  <2> HIDE DEF L, h
  <2>4. DOMAIN h = 1 .. L /\ \A k \in 1 .. L : h[k] = off[f] + k - 1
    BY <2>3
  <2>5. Range(h) = off[f] .. off[f + 1] - 1
    <3>1. \A k \in 1 .. L : h[k] \in off[f] .. off[f + 1] - 1
      BY <2>1, <2>2, <2>4
    <3>2. \A i \in off[f] .. off[f + 1] - 1 :
             (i + 1) - off[f] \in 1 .. L /\ h[(i + 1) - off[f]] = i
      BY <2>1, <2>2, <2>4
    <3> QED
      BY <2>4, <3>1, <3>2, Zenon DEF Range
  <2>6. \A k \in 1 .. L : h[k] \in 0 .. P - 1
    BY <1>1, <2>1, <2>2, <2>4
  <2> QED
    BY <2>1, <2>4, <2>5, <2>6 DEF h
<1>6. WellFormed(m)
  BY <1>1, <1>5, Zenon DEF WellFormed, P
<1>7. \A i \in 0 .. P - 1 : \E f \in 1 .. N : i \in Range(m.faces[f])
  <2> TAKE i \in 0 .. P - 1
  <2>1. PICK f \in 1 .. N : off[f] <= i /\ i < off[f + 1]
    BY <1>4
  <2>2. off[f] \in Nat /\ off[f + 1] \in Nat
    <3>1. f + 1 \in 1 .. N + 1
      BY <1>1
    <3> QED
      BY <1>3, <1>5, <3>1
  <2>3. i \in off[f] .. off[f + 1] - 1
    BY <1>1, <2>1, <2>2
  <2> QED
    BY <1>5, <2>3
<1>8. \A f \in 1 .. N : \A i \in Range(m.faces[f]) : i \in 0 .. P - 1
  BY <1>5 DEF Range
<1>9. Corners(m) = 0 .. P - 1
  BY <1>1, <1>7, <1>8 DEF Corners
<1> QED
  BY <1>6, <1>9 DEF P

\* One message does not change a compact mesh.
LEMMA CompactStays ==
    ASSUME NEW m, Compact(m)
    PROVE  Trip(m) = m
<1> DEFINE N == Len(m.faces)
<1>1. /\ WellFormed(m) /\ m \in Mesh /\ N \in Nat /\ DOMAIN m.faces = 1 .. N
      /\ m.points \in Seq(Point) /\ Len(m.points) \in Nat /\ m.faces \in Seq(Seq(Nat))
      /\ \A f \in 1 .. N : Len(m.faces[f]) \in Nat
  BY CornersOfCompact, MeshParts DEF Compact
<1>2. PICK off : IsNumbering(off, m)
  BY DEF Compact
<1>3. /\ off \in [1 .. N + 1 -> Nat] /\ off[1] = 0 /\ off[N + 1] = Len(m.points)
      /\ \A f \in 1 .. N : /\ off[f + 1] = off[f] + Len(m.faces[f])
                           /\ m.faces[f] = [k \in 1 .. Len(m.faces[f]) |-> off[f] + k - 1]
  BY <1>2 DEF IsNumbering
<1>4. PICK after : IsRun(after, EmptyMesh, m) /\ Trip(m) = after[N]
  BY <1>1, EmptyMeshType, Deserialized DEF WellFormed, Trip
<1>5. /\ after \in [0 .. N -> Mesh] /\ after[0] = EmptyMesh
      /\ \A n \in 1 .. N : IsFaceAdded(after[n], after[n - 1], m, n)
  BY <1>4 DEF IsRun
<1> HIDE DEF N
<1> DEFINE IsBeginning(r, n) == /\ Len(r.faces) = n /\ \A f \in 1 .. n : r.faces[f] = m.faces[f]
                             /\ Len(r.points) = off[n + 1]
                             /\ \A i \in 1 .. off[n + 1] : r.points[i] = m.points[i]
           S == {n \in 0 .. N : IsBeginning(after[n], n)}
<1>6. 0 \in S
  <2>1. Len(EmptyMesh.faces) = 0 /\ Len(EmptyMesh.points) = 0
    BY EmptyMeshType
  <2> QED
    BY <1>1, <1>3, <1>5, <2>1
<1>7. ASSUME NEW n \in 0 .. N - 1, n \in S
      PROVE  n + 1 \in S
  <2> DEFINE a == after[n]
             b == after[n + 1]
             h == m.faces[n + 1]
             L == Len(h)
             p == off[n + 1]
             q == off[n + 2]
  <2>1. n + 1 \in 1 .. N /\ (n + 1) + 1 = n + 2 /\ (n + 1) - 1 = n /\ n \in Nat
        /\ n + 1 \in 1 .. N + 1
    BY <1>1
  <2>2. IsFaceAdded(b, a, m, n + 1)
    BY <1>5, <2>1
  <2>3. IsBeginning(a, n)
    BY <1>7
  <2>4. /\ Len(a.faces) = n /\ \A f \in 1 .. n : a.faces[f] = m.faces[f]
        /\ Len(a.points) = p
        /\ \A i \in 1 .. p : a.points[i] = m.points[i]
    BY <2>3
  <2>5. /\ Len(b.points) = Len(a.points) + L
        /\ \A i \in 1 .. Len(a.points) : b.points[i] = a.points[i]
        /\ \A k \in 1 .. L : b.points[Len(a.points) + k] = m.points[h[k] + 1]
        /\ Len(b.faces) = Len(a.faces) + 1
        /\ \A f \in 1 .. Len(a.faces) : b.faces[f] = a.faces[f]
        /\ b.faces[Len(a.faces) + 1] = [k \in 1 .. L |-> Len(a.points) + k - 1]
    BY <2>2 DEF IsFaceAdded
  <2>6. p \in Nat /\ L \in Nat /\ q = p + L /\ h = [k \in 1 .. L |-> p + k - 1]
    BY <1>1, <1>3, <2>1
  <2> HIDE DEF a, b, h, L, p, q, IsBeginning
  <2>7. \A k \in 1 .. L : b.points[p + k] = m.points[p + k]
    <3> TAKE k \in 1 .. L
    <3>1. h[k] + 1 = p + k
      BY <2>6
    <3> QED
      BY <2>4, <2>5, <3>1
  <2>8. \A i \in 1 .. q : b.points[i] = m.points[i]
    <3> TAKE i \in 1 .. q
    <3>1. CASE i \in 1 .. p
      BY <2>4, <2>5, <3>1
    <3>2. CASE ~(i \in 1 .. p)
      <4>1. i - p \in 1 .. L /\ p + (i - p) = i
        BY <2>6, <3>2
      <4> QED
        BY <2>7, <4>1
    <3> QED
      BY <3>1, <3>2
  <2>9. \A f \in 1 .. n + 1 : b.faces[f] = m.faces[f]
    <3> TAKE f \in 1 .. n + 1
    <3>1. CASE f = n + 1
      BY <2>4, <2>5, <2>6, <3>1 DEF h
    <3>2. CASE f \in 1 .. n
      BY <2>4, <2>5, <3>2
    <3> QED
      BY <2>1, <3>1, <3>2
  <2>10. Len(b.faces) = n + 1 /\ Len(b.points) = off[(n + 1) + 1]
    BY <2>1, <2>4, <2>5, <2>6 DEF q
  <2>11. IsBeginning(b, n + 1)
    BY <2>1, <2>8, <2>9, <2>10 DEF IsBeginning, q
  <2> QED
    BY <1>1, <2>1, <2>11 DEF b
<1> HIDE DEF S, IsBeginning
<1>8. 0 .. N \subseteq S
  BY <1>1, <1>6, <1>7, IntervalInduction
<1>9. IsBeginning(Trip(m), N)
  <2>1. N \in S
    BY <1>1, <1>8
  <2> QED
    BY <1>4, <2>1 DEF S
<1> DEFINE r == Trip(m)
<1>10. /\ r \in Mesh /\ r.points \in Seq(Point) /\ r.faces \in Seq(Seq(Nat))
  BY <1>1, <1>4, <1>5, MeshParts
<1>11. /\ Len(r.faces) = N /\ \A f \in 1 .. N : r.faces[f] = m.faces[f]
       /\ Len(r.points) = Len(m.points)
       /\ \A i \in 1 .. Len(m.points) : r.points[i] = m.points[i]
  BY <1>3, <1>9 DEF IsBeginning
<1> HIDE DEF r
<1>12. r.points = m.points
  BY <1>1, <1>10, <1>11, SameSequence
<1>13. r.faces = m.faces
  BY <1>1, <1>10, <1>11, SameSequence DEF N
<1>14. /\ r = [points |-> r.points, faces |-> r.faces]
       /\ m = [points |-> m.points, faces |-> m.faces]
  BY <1>1, <1>10 DEF Mesh
<1>15. r = m
  BY <1>12, <1>13, <1>14, Zenon
<1> QED
  BY <1>15 DEF r


LEMMA MeshObjectsCompact == \A mesh \in MeshObjects : Compact(mesh)
BY CompactAfterwards, EmptyIsCompact, MeshesType DEF MeshObjects, Trip

\* Whatever a mesh object holds and whatever message is put into it, another
\* trip changes nothing, and every vertex is the corner of a face: TripSettles
\* of ServiceProvide for every mesh object there can be.
THEOREM AllSettle == Settling = MeshObjects
<1>1. ASSUME NEW old \in MeshObjects, NEW mesh \in Meshes,
             NEW new, new = DeserializeModel(old, SerializeModel(mesh))
      PROVE  Trip(new) = new /\ Corners(new) = 0 .. Len(new.points) - 1
  <2>1. Compact(new)
    BY <1>1, MeshObjectsCompact, MeshesType, CompactAfterwards
  <2> QED
    BY <2>1, CompactStays, CornersOfCompact
<1> QED
  BY <1>1 DEF Settling

\* What one message leaves of a mesh, a second one leaves as it is.
LEMMA TripTwice ==
    ASSUME NEW mesh, WellFormed(mesh)
    PROVE  WellFormed(Trip(mesh)) /\ Trip(Trip(mesh)) = Trip(mesh)
<1>1. Compact(Trip(mesh))
  BY CompactAfterwards, EmptyIsCompact DEF Trip
<1> QED
  BY <1>1, CornersOfCompact, CompactStays
===============================================================================
