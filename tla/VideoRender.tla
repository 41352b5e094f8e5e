---------------------------- MODULE VideoRender ----------------------------
(***************************************************************************)
(* VideoRender (media/video_render.cc): draws the pictures a transport     *)
(* hands over with OpenGL ES, on the thread of the view's renderer.  The   *)
(* VideoRenderView of Java creates the object, calls gLInit when its       *)
(* surface has a new context, gLRender for each frame, and disposes of it. *)
(*                                                                         *)
(* OpenGL is external.  glLinkProgram gives vPosition and a_texCoord two   *)
(* locations of its choice, or those that glBindAttribLocation has asked   *)
(* for before; a program that is in use lives on, and stays in use, when a *)
(* link of it fails and it is deleted.  Neither the context nor the object *)
(* is used after dispose.                                                  *)
(***************************************************************************)
EXTENDS Integers

CONSTANTS MaxPictures,  \* bound: pictures an object is given
          MaxAttribs    \* GL_MAX_VERTEX_ATTRIBS: locations of the linker

ASSUME BoundsAssumption ==
    /\ MaxPictures \in Nat
    /\ MaxAttribs \in Nat /\ MaxAttribs >= 2

\* The attributes RenderFrame gives its arrays to: enum ATTRIB_VERTEX, ATTRIB_TEXTURE.
ATTRIB_VERTEX == 0
ATTRIB_TEXTURE == 1

Locations == 0 .. MaxAttribs - 1

\* What a link may give the two attributes of the vertex shader.
Layouts == {l \in [vPosition : Locations, a_texCoord : Locations] :
              l.vPosition # l.a_texCoord}

\* glGetAttribLocation of no program, and what is in use when no program is.
None == [vPosition |-> -1, a_texCoord |-> -1]

VARIABLES
    alive,         \* the object exists
    cb,            \* a transport is registered
    exists,        \* g_program names a program of the context
    bound,         \* its attributes have been given locations
    inUse,         \* the locations in the executable that is in use
    g_is_vposition_true,
    getFirstYuv,
    buf,           \* the number of the picture in the buffer, 0 for none
    frame,         \* what the last gLRender has drawn
    crashed        \* a call through a null pointer has ended the process

vars == <<alive, cb, exists, bound, inUse, g_is_vposition_true, getFirstYuv,
          buf, frame, crashed>>

\* No picture, or one drawn with the array of positions at some attribute and
\* that of texture coordinates at the other; whether the link before it has
\* succeeded, and whether it knew the locations that are asked for.
NoFrame == [picture |-> 0, linked |-> FALSE, bound |-> FALSE,
            vPosition |-> ATTRIB_VERTEX, a_texCoord |-> ATTRIB_TEXTURE]

Frames == [picture : 0 .. MaxPictures, linked : BOOLEAN, bound : BOOLEAN,
           vPosition : Locations, a_texCoord : Locations]

TypeOK ==
    /\ alive \in BOOLEAN /\ cb \in BOOLEAN
    /\ exists \in BOOLEAN /\ bound \in BOOLEAN
    /\ inUse \in Layouts \cup {None}
    /\ g_is_vposition_true \in BOOLEAN
    /\ getFirstYuv \in BOOLEAN
    /\ inUse # None => alive /\ exists /\ bound /\ getFirstYuv
    /\ buf \in 0 .. MaxPictures
    /\ getFirstYuv <=> buf > 0
    /\ frame \in Frames
    /\ crashed \in BOOLEAN

\* The members of a new object, and a context without a program.
New ==
    /\ cb' = FALSE /\ exists' = FALSE /\ bound' = FALSE /\ inUse' = None
    /\ g_is_vposition_true' = TRUE
    /\ getFirstYuv' = FALSE
    /\ buf' = 0
    /\ frame' = NoFrame

Init ==
    /\ alive = FALSE
    /\ cb = FALSE /\ exists = FALSE /\ bound = FALSE /\ inUse = None
    /\ g_is_vposition_true = TRUE
    /\ getFirstYuv = FALSE
    /\ buf = 0
    /\ frame = NoFrame
    /\ crashed = FALSE

-----------------------------------------------------------------------------
(***************************************************************************)
(* The life of the object.                                                 *)
(***************************************************************************)
Create == ~alive /\ alive' = TRUE /\ New /\ UNCHANGED crashed

Dispose == alive /\ alive' = FALSE /\ New /\ UNCHANGED crashed

\* Whatever pointer it is given, NULL as well.
RegisterAudioCallback ==
    /\ alive
    /\ cb' \in BOOLEAN
    /\ UNCHANGED <<alive, exists, bound, inUse, g_is_vposition_true, getFirstYuv,
                   buf, frame, crashed>>

\* The program, or 0 when one of the shaders or the program cannot be made.
CreateProgram ==
    \E vtxShader \in BOOLEAN, fragShader \in BOOLEAN, program \in BOOLEAN :
        exists' = (vtxShader /\ fragShader /\ program)

\* For a new context, which shows nothing yet.
GLInit ==
    /\ alive
    /\ CreateProgram
    /\ bound' = FALSE /\ inUse' = None
    /\ frame' = NoFrame
    /\ UNCHANGED <<alive, cb, g_is_vposition_true, getFirstYuv, buf, crashed>>

-----------------------------------------------------------------------------
(***************************************************************************)
(* gLRender.                                                               *)
(***************************************************************************)
\* The locations RenderFrame asks for, and those glLinkProgram may give.
Asked == [vPosition |-> ATTRIB_TEXTURE, a_texCoord |-> ATTRIB_VERTEX]

Linked == IF bound THEN {Asked} ELSE Layouts

\* Mutated form of VPosition: the location is asked for before the link.
VPositionBefore(layout) == inUse.vPosition # 0

\* g_is_vposition_true: glGetAttribLocation's answer, -1 without a program.
VPosition(layout) == layout.vPosition # 0

\* RelinkProgram.  A failed link deletes the program, which goes at once only
\* when it is not in use; g_program keeps its name.
RelinkProgram(ok, layout) ==
    /\ IF ok THEN exists /\ layout \in Linked ELSE layout = None
    /\ exists' = (ok \/ (exists /\ inUse # None))
    /\ g_is_vposition_true' = VPosition(layout)

\* The array that goes from -1 to 1 is the one of positions: squareVertices1
\* for ATTRIB_VERTEX, coordVertices2 for ATTRIB_TEXTURE.
Positions(is_vposition_true) ==
    IF is_vposition_true THEN ATTRIB_TEXTURE ELSE ATTRIB_VERTEX

Coordinates(is_vposition_true) ==
    IF is_vposition_true THEN ATTRIB_VERTEX ELSE ATTRIB_TEXTURE

\* Mutated form of RenderFrame: a link that fails ends the frame.
NothingUnlinked(picture) ==
    \E ok \in BOOLEAN, layout \in Layouts \cup {None} :
        /\ RelinkProgram(ok, layout)
        /\ inUse' = IF ok THEN layout ELSE inUse
        /\ bound' = exists'
        /\ frame' = IF ~ok THEN NoFrame
                    ELSE [picture |-> picture, linked |-> ok, bound |-> bound,
                          vPosition |-> Positions(g_is_vposition_true'),
                          a_texCoord |-> Coordinates(g_is_vposition_true')]

\* glUseProgram of a program that is not linked changes nothing.  The calls of
\* glBindAttribLocation come after the link and count for the next one.
RenderFrame(picture) ==
    \E ok \in BOOLEAN, layout \in Layouts \cup {None} :
        /\ RelinkProgram(ok, layout)
        /\ inUse' = IF ok THEN layout ELSE inUse
        /\ bound' = exists'
        /\ frame' = IF inUse' = None THEN NoFrame
                    ELSE [picture |-> picture, linked |-> ok, bound |-> bound,
                          vPosition |-> Positions(g_is_vposition_true'),
                          a_texCoord |-> Coordinates(g_is_vposition_true')]

\* Mutated form of Latched: only the picture of this frame counts.
ThisFrame(isYUVValid) == isYUVValid

Latched(isYUVValid) == getFirstYuv \/ isYUVValid

\* NeedMoreVideoData writes a picture into buf, or says that there is none.
GLRender ==
    /\ alive /\ cb
    /\ \E isYUVValid \in BOOLEAN :
         /\ isYUVValid => buf < MaxPictures
         /\ buf' = IF isYUVValid THEN buf + 1 ELSE buf
         /\ getFirstYuv' = Latched(isYUVValid)
    /\ IF getFirstYuv'
       THEN RenderFrame(buf')
       ELSE /\ frame' = NoFrame
            /\ UNCHANGED <<exists, bound, inUse, g_is_vposition_true>>
    /\ UNCHANGED <<alive, cb, crashed>>

\* gLRender without a transport: cb is not looked at before the call through it.
GLRenderCrashes ==
    /\ alive /\ ~cb
    /\ crashed' = TRUE
    /\ UNCHANGED <<alive, cb, exists, bound, inUse, g_is_vposition_true,
                   getFirstYuv, buf, frame>>

-----------------------------------------------------------------------------
Next ==
    /\ ~crashed
    /\ \/ Create \/ Dispose \/ RegisterAudioCallback \/ GLInit
       \/ GLRender \/ GLRenderCrashes

Spec == Init /\ [][Next]_vars

-----------------------------------------------------------------------------
(***************************************************************************)
(* Properties.                                                             *)
(***************************************************************************)
Drawn == frame.picture # 0

\* Each array is at the attribute that the program in use reads it from.
Matches ==
    /\ frame.vPosition = inUse.vPosition
    /\ frame.a_texCoord = inUse.a_texCoord

\* From the second frame of a program on, each that links has its arrays at the
\* attributes the program reads them from, as glBindAttribLocation has asked
\* for these; the first frame has if, and only if, the linker happens to have
\* taken the locations 0 and 1, as the test against 0 tells no others apart.
ArraysMatchProgram ==
    Drawn /\ frame.linked =>
        (Matches <=> \/ frame.bound
                     \/ {inUse.vPosition, inUse.a_texCoord}
                            = {ATTRIB_VERTEX, ATTRIB_TEXTURE})

\* Every frame shows the latest picture, also when no new one has come, when
\* the context is a new one and when its own link has failed, and it shows
\* nothing only before the first picture and while no link of the context has
\* succeeded yet.
ShowsLatestPicture ==
    [][GLRender => frame'.picture = IF inUse' = None THEN 0 ELSE buf']_vars
=============================================================================
