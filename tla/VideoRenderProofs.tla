------------------------- MODULE VideoRenderProofs -------------------------
(***************************************************************************)
(* Theorems of VideoRender, for any number of pictures and of locations    *)
(* that a linker may choose from.                                          *)
(***************************************************************************)
EXTENDS VideoRender, TLAPS

LEMMA NoFrameType == NoFrame \in Frames
<1>1. 0 \in 0 .. MaxPictures
  BY BoundsAssumption
<1>2. ATTRIB_VERTEX \in Locations /\ ATTRIB_TEXTURE \in Locations
  BY BoundsAssumption DEF Locations, ATTRIB_VERTEX, ATTRIB_TEXTURE
<1> QED
  BY <1>1, <1>2 DEF NoFrame, Frames

LEMMA TypeInit == Init => TypeOK
<1>1. 0 \in 0 .. MaxPictures /\ ~(0 > 0)
  BY BoundsAssumption
<1> QED
  BY <1>1, NoFrameType DEF Init, TypeOK

\* The layout asked for is one a link may give.
LEMMA AskedType == Asked \in Layouts
  BY BoundsAssumption DEF Asked, Layouts, Locations, ATTRIB_VERTEX, ATTRIB_TEXTURE

LEMMA LayoutType ==
  ASSUME NEW layout \in Layouts
  PROVE  /\ layout.vPosition \in Nat /\ layout.a_texCoord \in Nat
         /\ layout.vPosition # layout.a_texCoord
         /\ layout # None
<1>1. layout.vPosition \in 0 .. MaxAttribs - 1 /\ layout.a_texCoord \in 0 .. MaxAttribs - 1
  BY DEF Layouts, Locations
<1>2. layout.vPosition \in Nat /\ layout.a_texCoord \in Nat
  BY <1>1, BoundsAssumption
<1>3. None.vPosition = -1
  BY DEF None
<1> QED
  BY <1>2, <1>3 DEF Layouts

\* A frame that does not link leaves in use what is in use.
LEMMA LinkTypes ==
  ASSUME TypeOK, NEW ok \in BOOLEAN, NEW layout \in Layouts \cup {None},
         RelinkProgram(ok, layout)
  PROVE  /\ exists' \in BOOLEAN /\ g_is_vposition_true' \in BOOLEAN
         /\ ok => layout \in Layouts
         /\ ok /\ bound => layout = Asked
         /\ ~ok /\ inUse # None => exists'
BY AskedType DEF TypeOK, RelinkProgram, VPosition, Linked

LEMMA TypeNext == TypeOK /\ [Next]_vars => TypeOK'
<1> SUFFICES ASSUME TypeOK, [Next]_vars PROVE TypeOK'
  OBVIOUS
<1>1. CASE Create \/ Dispose
  <2>1. 0 \in 0 .. MaxPictures /\ ~(0 > 0)
    BY BoundsAssumption
  <2>2. /\ frame' = NoFrame /\ buf' = 0 /\ ~getFirstYuv' /\ inUse' = None
        /\ cb' \in BOOLEAN /\ exists' \in BOOLEAN /\ bound' \in BOOLEAN
        /\ g_is_vposition_true' \in BOOLEAN
    BY <1>1 DEF Create, Dispose, New
  <2>3. getFirstYuv' \in BOOLEAN
    BY <1>1 DEF Create, Dispose, New
  <2>4. alive' \in BOOLEAN /\ crashed' \in BOOLEAN
    BY <1>1, Zenon DEF Create, Dispose, New, TypeOK
  <2> QED
    BY <2>1, <2>2, <2>3, <2>4, NoFrameType DEF TypeOK
<1>2. CASE RegisterAudioCallback \/ GLRenderCrashes \/ UNCHANGED vars
  <2>1. /\ UNCHANGED <<exists, bound, inUse, g_is_vposition_true, getFirstYuv,
                       buf, frame>>
        /\ alive' = alive
    BY <1>2 DEF RegisterAudioCallback, GLRenderCrashes, vars
  <2>2. cb' \in BOOLEAN /\ crashed' \in BOOLEAN
    BY <1>2, Zenon DEF RegisterAudioCallback, GLRenderCrashes, vars, TypeOK
  <2> QED
    BY <2>1, <2>2 DEF TypeOK
<1>3. CASE GLInit
  BY <1>3, NoFrameType DEF GLInit, CreateProgram, TypeOK
<1>4. CASE GLRender
  <2>1. PICK isYUVValid \in BOOLEAN :
          /\ isYUVValid => buf < MaxPictures
          /\ buf' = IF isYUVValid THEN buf + 1 ELSE buf
          /\ getFirstYuv' = Latched(isYUVValid)
    BY <1>4 DEF GLRender
  <2>2. buf' \in 0 .. MaxPictures /\ buf' >= buf /\ (isYUVValid => buf' > 0)
    BY <2>1, BoundsAssumption DEF TypeOK
  <2>3. /\ getFirstYuv' \in BOOLEAN /\ (getFirstYuv => getFirstYuv')
        /\ getFirstYuv' <=> buf' > 0
    <3>1. CASE isYUVValid
      BY <2>1, <2>2, <3>1 DEF Latched, TypeOK
    <3>2. CASE ~isYUVValid
      BY <2>1, <3>2 DEF Latched, TypeOK
    <3> QED
      BY <3>1, <3>2
  <2>4. CASE getFirstYuv'
    <3>1. PICK ok \in BOOLEAN, layout \in Layouts \cup {None} :
            /\ RelinkProgram(ok, layout)
            /\ inUse' = IF ok THEN layout ELSE inUse
            /\ bound' = exists'
            /\ frame' = IF inUse' = None THEN NoFrame
                        ELSE [picture |-> buf', linked |-> ok, bound |-> bound,
                              vPosition |-> Positions(g_is_vposition_true'),
                              a_texCoord |-> Coordinates(g_is_vposition_true')]
      BY <1>4, <2>4 DEF GLRender, RenderFrame
    <3>2. exists' \in BOOLEAN /\ bound' \in BOOLEAN /\ g_is_vposition_true' \in BOOLEAN
      BY <3>1, LinkTypes
    <3>3. inUse' \in Layouts \cup {None}
      BY <3>1 DEF TypeOK
    <3>4. inUse' # None => exists' /\ bound'
      BY <3>1, LinkTypes DEF RelinkProgram
    <3>5. frame' \in Frames
      <4>1. /\ Positions(g_is_vposition_true') \in Locations
            /\ Coordinates(g_is_vposition_true') \in Locations
        BY BoundsAssumption DEF Positions, Coordinates, Locations, ATTRIB_VERTEX,
                                ATTRIB_TEXTURE
      <4>2. bound \in BOOLEAN
        BY DEF TypeOK
      <4> QED
        BY <2>2, <3>1, <4>1, <4>2, NoFrameType DEF Frames
    <3> QED
      BY <1>4, <2>2, <2>3, <2>4, <3>2, <3>3, <3>4, <3>5 DEF GLRender, TypeOK
  <2>5. CASE ~getFirstYuv'
    BY <1>4, <2>2, <2>3, <2>5, NoFrameType DEF GLRender, TypeOK
  <2> QED
    BY <2>4, <2>5
<1> QED
  BY <1>1, <1>2, <1>3, <1>4 DEF Next

\* All values stay in their types, and what is in use is a program that exists
\* and has been used for a picture.
THEOREM RenderTypeCorrect == Spec => []TypeOK
<1>1. Init => TypeOK
  BY TypeInit
<1>2. TypeOK /\ [Next]_vars => TypeOK'
  BY TypeNext
<1> QED
  BY <1>1, <1>2, PTL DEF Spec

-----------------------------------------------------------------------------
\* The test against 0 places the arrays right for two layouts and no other, and
\* the one that RenderFrame asks for is among them.
LEMMA TestAgainstZero ==
  ASSUME NEW layout \in Layouts
  PROVE  LET v == VPosition(layout) IN
         (/\ Positions(v) = layout.vPosition /\ Coordinates(v) = layout.a_texCoord)
            <=> {layout.vPosition, layout.a_texCoord} = {ATTRIB_VERTEX, ATTRIB_TEXTURE}
<1> DEFINE p == layout.vPosition
           c == layout.a_texCoord
<1>1. p \in Nat /\ c \in Nat /\ p # c
  BY LayoutType
<1>2. {p, c} = {0, 1} <=> (p = 0 /\ c = 1) \/ (p = 1 /\ c = 0)
  BY <1>1
<1>3. CASE p = 0
  <2>1. Positions(VPosition(layout)) = 0 /\ Coordinates(VPosition(layout)) = 1
    BY <1>3 DEF VPosition, Positions, Coordinates, ATTRIB_VERTEX, ATTRIB_TEXTURE
  <2> QED
    BY <1>2, <1>3, <2>1 DEF ATTRIB_VERTEX, ATTRIB_TEXTURE
<1>4. CASE p # 0
  <2>1. Positions(VPosition(layout)) = 1 /\ Coordinates(VPosition(layout)) = 0
    BY <1>4 DEF VPosition, Positions, Coordinates, ATTRIB_VERTEX, ATTRIB_TEXTURE
  <2> QED
    BY <1>2, <1>4, <2>1 DEF ATTRIB_VERTEX, ATTRIB_TEXTURE
<1> QED
  BY <1>3, <1>4

LEMMA ArraysNext ==
    TypeOK /\ ArraysMatchProgram /\ [Next]_vars => ArraysMatchProgram'
<1> SUFFICES ASSUME TypeOK, ArraysMatchProgram, [Next]_vars
             PROVE  ArraysMatchProgram'
  OBVIOUS
<1> USE DEF ArraysMatchProgram, Drawn
<1>1. CASE Create \/ Dispose \/ GLInit
  BY <1>1 DEF Create, Dispose, GLInit, New, NoFrame
<1>2. CASE RegisterAudioCallback \/ GLRenderCrashes \/ UNCHANGED vars
  BY <1>2 DEF RegisterAudioCallback, GLRenderCrashes, vars, Matches
<1>3. CASE GLRender
  <2>1. CASE ~getFirstYuv'
    BY <1>3, <2>1 DEF GLRender, NoFrame
  <2>2. CASE getFirstYuv'
    <3>1. PICK ok \in BOOLEAN, layout \in Layouts \cup {None} :
            /\ RelinkProgram(ok, layout)
            /\ inUse' = IF ok THEN layout ELSE inUse
            /\ frame' = IF inUse' = None THEN NoFrame
                        ELSE [picture |-> buf', linked |-> ok, bound |-> bound,
                              vPosition |-> Positions(g_is_vposition_true'),
                              a_texCoord |-> Coordinates(g_is_vposition_true')]
      BY <1>3, <2>2 DEF GLRender, RenderFrame
    <3>2. CASE ~ok
      BY <3>1, <3>2 DEF NoFrame
    <3>3. CASE ok
      <4>1. /\ layout \in Layouts /\ inUse' = layout
            /\ g_is_vposition_true' = VPosition(layout)
            /\ bound => layout = Asked
        BY <3>1, <3>3, LinkTypes DEF RelinkProgram
      <4>2. /\ frame'.bound = bound
            /\ frame'.vPosition = Positions(VPosition(layout))
            /\ frame'.a_texCoord = Coordinates(VPosition(layout))
        BY <3>1, <4>1, LayoutType
      <4>3. bound => {layout.vPosition, layout.a_texCoord}
                        = {ATTRIB_VERTEX, ATTRIB_TEXTURE}
        BY <4>1 DEF Asked
      <4> QED
        BY <4>1, <4>2, <4>3, TestAgainstZero DEF Matches
    <3> QED
      BY <3>2, <3>3
  <2> QED
    BY <2>1, <2>2
<1> QED
  BY <1>1, <1>2, <1>3 DEF Next

\* For every number of locations the linker may choose from: from the second
\* frame on the arrays are where the program reads them; in the first frame of
\* a program they are if and only if the linker took the locations 0 and 1.
THEOREM PositionsMatch == Spec => []ArraysMatchProgram
<1>1. Init => TypeOK /\ ArraysMatchProgram
  BY TypeInit DEF Init, ArraysMatchProgram, Drawn, NoFrame
<1>2. TypeOK /\ ArraysMatchProgram /\ [Next]_vars
        => (TypeOK /\ ArraysMatchProgram)'
  BY TypeNext, ArraysNext
<1> QED
  BY <1>1, <1>2, PTL DEF Spec

\* Every frame shows the latest picture, and nothing only before the first one
\* and while no link of the context has succeeded.
THEOREM LatestPictureShown == Spec => ShowsLatestPicture
<1>1. Init => TypeOK
  BY TypeInit
<1>2. TypeOK /\ [Next]_vars => TypeOK'
  BY TypeNext
<1>3. TypeOK /\ [Next]_vars
        => [GLRender => frame'.picture = IF inUse' = None THEN 0 ELSE buf']_vars
  <2> SUFFICES ASSUME TypeOK, GLRender
               PROVE  frame'.picture = IF inUse' = None THEN 0 ELSE buf'
    OBVIOUS
  <2>1. CASE getFirstYuv'
    <3>1. \E ok \in BOOLEAN, layout \in Layouts \cup {None} :
            frame' = IF inUse' = None THEN NoFrame
                     ELSE [picture |-> buf', linked |-> ok, bound |-> bound,
                           vPosition |-> Positions(g_is_vposition_true'),
                           a_texCoord |-> Coordinates(g_is_vposition_true')]
      BY <2>1 DEF GLRender, RenderFrame
    <3> QED
      BY <3>1 DEF NoFrame
  <2>2. CASE ~getFirstYuv'
    <3>1. ~getFirstYuv /\ inUse' = inUse /\ frame' = NoFrame
      BY <2>2 DEF GLRender, Latched
    <3>2. inUse = None
      BY <3>1 DEF TypeOK
    <3> QED
      BY <3>1, <3>2 DEF NoFrame
  <2> QED
    BY <2>1, <2>2
<1> QED
  BY <1>1, <1>2, <1>3, PTL DEF Spec, ShowsLatestPicture
=============================================================================
