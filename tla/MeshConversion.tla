---------------------------- MODULE MeshConversion ----------------------------
(***************************************************************************)
(* Shared/ModelProcessor: how a mesh is put into a message and taken out   *)
(* of it. Handlers and clients use both directions (ServiceProvide).       *)
(*                                                                         *)
(* A mesh is the points of its vertices and its faces, which name vertices *)
(* by their handles, counted from 0. OpenMesh circulates through a face    *)
(* from the vertex that add_face was given first.                          *)
(***************************************************************************)
EXTENDS Naturals, Sequences, SequencesExt

CONSTANTS
    Point,  \* the coordinates of vertices
    Meshes  \* the meshes that are sent

Mesh == [points : Seq(Point), faces : Seq(Seq(Nat))]

ASSUME MeshConversionAssumption ==
    \A m \in Meshes : /\ m \in Mesh
                      /\ \A f \in DOMAIN m.faces : \A k \in DOMAIN m.faces[f] :
                            m.faces[f][k] \in 0 .. Len(m.points) - 1

EmptyMesh == [points |-> <<>>, faces |-> <<>>]

\* A faulty variant of SerializeModel: the indices count from 1.
SerializeModelFromOne(mesh) ==
    [vertex |-> mesh.points,
     face |-> [f \in DOMAIN mesh.faces |-> [k \in DOMAIN mesh.faces[f] |-> mesh.faces[f][k] + 1]]]

\* All vertices, also those in no face, and the faces by their indices.
SerializeModel(mesh) == [vertex |-> mesh.points, face |-> mesh.faces]

\* verticies[index]: outside the vector it is anything, here an arbitrary point.
VertexAt(wire, index) ==
    IF index < Len(wire.vertex) THEN wire.vertex[index + 1] ELSE CHOOSE p \in Point : TRUE

\* Faulty variants of AddFace: vhandle is not cleared between two faces, and
\* the handles of each face count from 0.
AddFaceUncleared(mesh, wire, face) ==
    [points |-> mesh.points \o [k \in DOMAIN face |-> VertexAt(wire, face[k])],
     faces |-> Append(mesh.faces, [k \in 1 .. Len(mesh.points) + Len(face) |-> k - 1])]
AddFaceFromZero(mesh, wire, face) ==
    [points |-> mesh.points \o [k \in DOMAIN face |-> VertexAt(wire, face[k])],
     faces |-> Append(mesh.faces, [k \in DOMAIN face |-> k - 1])]

\* add_vertex for each index of the face, then add_face with their handles.
AddFace(mesh, wire, face) ==
    [points |-> mesh.points \o [k \in DOMAIN face |-> VertexAt(wire, face[k])],
     faces |-> Append(mesh.faces, [k \in DOMAIN face |-> Len(mesh.points) + k - 1])]

\* The faces of the message are added to a mesh that may have faces already.
DeserializeModel(mesh, wire) ==
    LET after[n \in 0 .. Len(wire.face)] ==
          IF n = 0 THEN mesh ELSE AddFace(after[n - 1], wire, wire.face[n])
    IN after[Len(wire.face)]

\* One mesh through one message.
Trip(mesh) == DeserializeModel(EmptyMesh, SerializeModel(mesh))

----------------------------------------------------------------------------

\* A mesh as what it looks like: the corners of its faces.
Polygons(mesh) ==
    [f \in DOMAIN mesh.faces |->
       [k \in DOMAIN mesh.faces[f] |-> mesh.points[mesh.faces[f][k] + 1]]]

\* What a mesh object can hold before a message is put into it.
MeshObjects == {EmptyMesh} \cup {Trip(mesh) : mesh \in Meshes}

\* Those that have the polygons of any message behind their own afterwards.
Keeping ==
    {old \in MeshObjects :
       \A mesh \in Meshes :
          Polygons(DeserializeModel(old, SerializeModel(mesh))) = Polygons(old) \o Polygons(mesh)}

Corners(mesh) == UNION {Range(mesh.faces[f]) : f \in DOMAIN mesh.faces}

\* Those that are afterwards as another message would leave them, and without
\* vertices in no face.
Settling ==
    {old \in MeshObjects :
       \A mesh \in Meshes :
          LET new == DeserializeModel(old, SerializeModel(mesh))
          IN Trip(new) = new /\ Corners(new) = 0 .. Len(new.points) - 1}
==============================================================================
