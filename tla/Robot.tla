------------------------------- MODULE Robot -------------------------------
(***************************************************************************)
(* apps/wireless_serial_robot_jwsForStudents: a robot that a camera above  *)
(* it tells, over the radio, where its own April tag and the others are.   *)
(* When all tags are known it tries orders of them at random, then drives  *)
(* along the shortest path found and stops at its end.  An action is a     *)
(* part of one turn of main's loop.  The picture is a line (y is left out: *)
(* distance and atan2 are those of two points of one row); what the        *)
(* program prints is left out.  In readCameraInfo the second condition on  *)
(* the count is read with the parenthesis its line lacks.                  *)
(***************************************************************************)
EXTENDS Integers, Sequences, FiniteSets, FiniteSetsExt

CONSTANTS
  Tags,                       \* the other April tags a camera may report
  numberOfAprilTagLocations,
  Spots, Headings,            \* what packets say of a tag, in pixels and degrees
  SeenEvery,                  \* 16: the sightings of the robot from one look at the clock to the next
  AverageEvery, AverageUpTo,  \* 32 and 3200: the sightings of a tag that are averaged
  numberOfTrials, PacketSize, \* 250 and 5
  TooLong,                    \* 2500 ms in ticks
  NoTag

VARIABLES
  locations, backup_locations, listOfTagsFound, numberOfTagsFound,
  robot,           \* myLocation: x, heading, and count from its last multiple of SeenEvery
  foundMyTag,
  firstTime, waitForKeyPressToStart,
  readstate, packetsRead,
  randomSamples, bestScore,
  currentAction, motors, power,
  unseen,          \* now - lastTimeRobotSeen, up to TooLong + 1
  pc, currentMode,
  returned,        \* main has returned
  hit              \* the names of the tags the robot was near to

cameraVars == <<readstate, packetsRead>>
tagVars == <<locations, listOfTagsFound, numberOfTagsFound>>
robotVars == <<robot, foundMyTag>>
pathVars == <<backup_locations, randomSamples, bestScore>>
driveVars == <<currentAction, motors, power, returned, hit>>
vars == <<tagVars, robotVars, firstTime, waitForKeyPressToStart, cameraVars, pathVars, driveVars,
          unseen, pc, currentMode>>

minDistance == 15
Cells == 1..numberOfAprilTagLocations
Abs(n) == IF n < 0 THEN -n ELSE n
distance(x1, x2) == Abs(x1 - x2)
keepAngleInRange(angle) == 180 - ((180 - angle) % 360)

Init ==
  /\ locations = [i \in Cells |-> [name |-> NoTag, x |-> 0, count |-> 0, visited |-> FALSE]]
  /\ backup_locations = locations
  /\ listOfTagsFound = [i \in Cells |-> NoTag] /\ numberOfTagsFound = 0
  /\ robot = [x |-> 0, heading |-> 0, count |-> 0] /\ foundMyTag = FALSE
  /\ firstTime = TRUE /\ waitForKeyPressToStart = TRUE
  /\ readstate = FALSE /\ packetsRead = 1
  /\ randomSamples = 0 /\ bestScore = 0
  /\ currentAction = "none" /\ motors = "still" /\ power = 128
  /\ unseen = 0 /\ pc = "read" /\ currentMode \in {"tethered", "untethered"}
  /\ returned = FALSE /\ hit = {}

-----------------------------------------------------------------------------
\* The path.

\* The score of the path through the cells not visited, in their order.
scorePath(cells, from) ==
  LET stop[i \in 0..numberOfAprilTagLocations] ==
        IF i = 0 THEN [x |-> from, score |-> 0]
        ELSE IF cells[i].visited THEN stop[i - 1]
        ELSE [x |-> cells[i].x,
              score |-> stop[i - 1].score + distance(stop[i - 1].x, cells[i].x)]
  IN stop[numberOfAprilTagLocations].score

\* Mutant: the first of the two is overwritten before it was copied.
SwappedLost(cells, i, j) == [cells EXCEPT ![j] = cells[i]]

Swapped(cells, i, j) == [cells EXCEPT ![i] = cells[j], ![j] = cells[i]]

\* The outcomes of the shuffle: each cell in turn changes places with itself
\* or with a later one.
permuteAprilTagsList(cells) ==
  LET after[i \in 0..numberOfAprilTagLocations] ==
        IF i = 0 THEN {cells}
        ELSE UNION {{Swapped(c, i, j) : j \in i..numberOfAprilTagLocations} : c \in after[i - 1]}
  IN after[numberOfAprilTagLocations]

FirstSample ==
  /\ randomSamples = 0
  /\ backup_locations' = locations
  /\ bestScore' = scorePath(locations, robot.x)
  /\ UNCHANGED locations

LastSample ==
  /\ randomSamples = numberOfTrials
  /\ locations' = backup_locations
  /\ UNCHANGED <<backup_locations, bestScore>>

Sample ==
  /\ randomSamples \in 1..numberOfTrials - 1
  /\ locations' \in permuteAprilTagsList(locations)
  /\ IF scorePath(locations', robot.x) < bestScore
     THEN bestScore' = scorePath(locations', robot.x) /\ backup_locations' = locations'
     ELSE UNCHANGED <<bestScore, backup_locations>>

findLeastCostPath ==
  /\ FirstSample \/ Sample \/ LastSample
  /\ randomSamples' = randomSamples + 1

-----------------------------------------------------------------------------
\* The camera.

tagAlreadyFound(id) == {i \in Cells : listOfTagsFound[i] = id}

RobotSeen(x, heading) ==
  /\ robot' = [x |-> x, heading |-> keepAngleInRange(heading),
               count |-> (robot.count + 1) % SeenEvery]
  /\ unseen' = IF robot'.count = 1 THEN 0 ELSE unseen
  /\ foundMyTag' = TRUE
  /\ UNCHANGED tagVars

\* A tag's place is the average of what was read of it; the count stays where
\* it is once no reading is averaged any more.
Averaged(cell, x) ==
  LET n == IF cell.count < AverageUpTo THEN cell.count + 1 ELSE cell.count
  IN [cell EXCEPT !.count = n,
                  !.x = IF n % AverageEvery = 1 /\ n < AverageUpTo
                        THEN (cell.x * (n - 1) + x) \div n ELSE @]

TagSeen(id, x) ==
  /\ IF tagAlreadyFound(id) # {}
     THEN /\ locations' = [locations EXCEPT ![Min(tagAlreadyFound(id))] = Averaged(@, x)]
          /\ UNCHANGED <<listOfTagsFound, numberOfTagsFound>>
     ELSE IF numberOfTagsFound >= numberOfAprilTagLocations
     THEN UNCHANGED tagVars
     ELSE /\ numberOfTagsFound' = numberOfTagsFound + 1
          /\ locations' = [locations EXCEPT ![numberOfTagsFound + 1] =
                             [Averaged(@, x) EXCEPT !.name = id]]
          /\ listOfTagsFound' = [listOfTagsFound EXCEPT ![numberOfTagsFound + 1] = id]
  /\ UNCHANGED <<robotVars, unseen>>

\* The fifth byte has come: the packet is of the robot or of another tag.
readCameraInfo ==
  \E x \in Spots :
    \/ \E heading \in Headings : RobotSeen(x, heading)
    \/ \E id \in Tags : TagSeen(id, x)

-----------------------------------------------------------------------------
\* The motors.

brake == motors' = "still"
turnLeft == motors' = "left" /\ currentAction' = "left"
turnRight == motors' = "right" /\ currentAction' = "right"
goForward == motors' = "forward" /\ currentAction' = "forward"

moveForward(cell, action) ==
  /\ power' = IF distance(cell.x, robot.x) < 2 * minDistance THEN 100 ELSE 125
  /\ IF action = "forward" THEN currentAction' = action /\ UNCHANGED motors ELSE goForward

turnTowardTag(angleToTurn, action) ==
  /\ power' = IF Abs(angleToTurn) < 30 THEN 75 ELSE 80
  /\ IF action = (IF angleToTurn < 0 THEN "right" ELSE "left")
     THEN currentAction' = action /\ UNCHANGED motors
     ELSE IF angleToTurn < 0 THEN turnRight ELSE turnLeft

\* The angles at which the robot goes on ahead depend on how it turns now.
moveTowardAprilTag(cell, action) ==
  LET angleToApril == IF cell.x >= robot.x THEN 0 ELSE 180
      angleToTurn == keepAngleInRange(angleToApril - robot.heading)
      left == IF action = "left" THEN 35 ELSE 45
      right == IF action = "right" THEN 35 ELSE 45
  IN IF angleToTurn > -right /\ angleToTurn < left
     THEN moveForward(cell, action) ELSE turnTowardTag(angleToTurn, action)

closeEnoughToAprilTag(cell) == distance(cell.x, robot.x) <= minDistance

stop == brake /\ returned' = TRUE /\ UNCHANGED power

\* Mutant: the turn of the loop ends when a tag is hit.
checkActionOnce ==
  LET ahead == {i \in Cells : ~locations[i].visited}
  IN IF ahead = {} THEN stop /\ UNCHANGED <<currentAction, locations, hit>>
     ELSE LET i == Min(ahead) IN
       IF closeEnoughToAprilTag(locations[i])
       THEN /\ locations' = [locations EXCEPT ![i].visited = TRUE]
            /\ hit' = hit \cup {locations[i].name}
            /\ currentAction' = "none" /\ UNCHANGED <<motors, power, returned>>
       ELSE moveTowardAprilTag(locations[i], currentAction) /\ UNCHANGED <<locations, hit, returned>>

\* The cells on the path are hit one after the other as far as the robot is
\* near to them; it moves toward the next, or stops.
checkAction ==
  LET ahead == {i \in Cells : ~locations[i].visited /\ ~closeEnoughToAprilTag(locations[i])}
      target == IF ahead = {} THEN numberOfAprilTagLocations + 1 ELSE Min(ahead)
      reached == {i \in Cells : i < target /\ ~locations[i].visited}
      action == IF reached = {} THEN currentAction ELSE "none"
  IN /\ locations' = [i \in Cells |->
                        IF i < target THEN [locations[i] EXCEPT !.visited = TRUE] ELSE locations[i]]
     /\ hit' = hit \cup {locations[i].name : i \in reached}
     /\ IF ahead = {}
        THEN stop /\ currentAction' = action
        ELSE moveTowardAprilTag(locations[target], action) /\ UNCHANGED returned

-----------------------------------------------------------------------------
\* A turn of the loop: it reads a byte, if one is there, and then acts.

\* A byte is part of a packet, starts one, or is a key: only 'g' is one the
\* robot waits for.  A key pressed while it waits ends the turn.
ReadByte ==
  \/ /\ readstate
     /\ packetsRead' = packetsRead + 1 /\ UNCHANGED <<readstate, waitForKeyPressToStart>>
     /\ pc' = IF packetsRead' = PacketSize THEN "packet" ELSE "act"
  \/ /\ ~readstate /\ readstate' = TRUE /\ packetsRead' = 1
     /\ UNCHANGED waitForKeyPressToStart /\ pc' = "act"
  \/ /\ ~readstate /\ waitForKeyPressToStart /\ waitForKeyPressToStart' \in BOOLEAN
     /\ pc' = "read" /\ UNCHANGED cameraVars
  \/ /\ ~readstate /\ ~waitForKeyPressToStart
     /\ pc' = "act" /\ UNCHANGED <<cameraVars, waitForKeyPressToStart>>

Read ==
  /\ pc = "read" /\ currentMode = "untethered" /\ ~returned
  /\ \/ ReadByte
     \/ pc' = "act" /\ UNCHANGED <<cameraVars, waitForKeyPressToStart>>
  /\ UNCHANGED <<tagVars, robotVars, firstTime, pathVars, driveVars, unseen, currentMode>>

\* The packet is whole.
Packet ==
  /\ pc = "packet" /\ pc' = "located"
  /\ readCameraInfo
  /\ packetsRead' = 0 /\ readstate' = FALSE
  /\ UNCHANGED <<firstTime, waitForKeyPressToStart, pathVars, driveVars, currentMode>>

\* Until all tags are located nothing follows a packet; the first that finds
\* them all located makes the first sample.
Located ==
  /\ pc = "located"
  /\ IF numberOfTagsFound < numberOfAprilTagLocations \/ ~foundMyTag
     THEN pc' = "read" /\ UNCHANGED <<firstTime, locations, pathVars>>
     ELSE IF firstTime
     THEN pc' = "read" /\ firstTime' = FALSE /\ findLeastCostPath
     ELSE pc' = "act" /\ UNCHANGED <<firstTime, locations, pathVars>>
  /\ UNCHANGED <<listOfTagsFound, numberOfTagsFound, robotVars, waitForKeyPressToStart, cameraVars,
                 driveVars, unseen, currentMode>>

\* A sample, the brake when the robot was not seen for too long, or a move.
Act ==
  /\ pc = "act" /\ pc' = "read"
  /\ \/ /\ waitForKeyPressToStart \/ (randomSamples <= numberOfTrials /\ firstTime)
        /\ UNCHANGED <<locations, pathVars, driveVars>>
     \/ /\ ~waitForKeyPressToStart /\ randomSamples <= numberOfTrials /\ ~firstTime
        /\ findLeastCostPath /\ UNCHANGED driveVars
     \/ /\ ~waitForKeyPressToStart /\ randomSamples > numberOfTrials
        /\ IF currentAction # "none" /\ unseen > TooLong
           THEN /\ currentAction' = "none" /\ brake
                /\ UNCHANGED <<power, returned, hit, locations>>
           ELSE IF unseen < TooLong THEN checkAction ELSE UNCHANGED <<driveVars, locations>>
        /\ UNCHANGED pathVars
  /\ UNCHANGED <<listOfTagsFound, numberOfTagsFound, robotVars, firstTime, waitForKeyPressToStart,
                 cameraVars, unseen, currentMode>>

\* Plugged into USB the robot only relays bytes: its motors go on as they are.
updateMode ==
  /\ pc = "read"
  /\ currentMode' \in {"tethered", "untethered"} \ {currentMode}
  /\ UNCHANGED <<pc, tagVars, robotVars, firstTime, waitForKeyPressToStart, cameraVars, pathVars,
                 driveVars, unseen>>

Tick ==
  /\ unseen <= TooLong /\ unseen' = unseen + 1
  /\ UNCHANGED <<pc, tagVars, robotVars, firstTime, waitForKeyPressToStart, cameraVars, pathVars,
                 driveVars, currentMode>>

Next == Read \/ Packet \/ Located \/ Act \/ updateMode \/ Tick
Spec == Init /\ [][Next]_vars

-----------------------------------------------------------------------------
\* A turn of the loop that finds the robot out of the camera's sight for too
\* long leaves its motors still, whatever was hit or tried before: a motor
\* that turns is one currentAction knows of (jwsRunRobot, checkAction).
UnseenRobotStops ==
  [][pc = "act" /\ pc' = "read" /\ unseen > TooLong => motors' = "still"]_vars

\* The program returns only when the robot was near to every tag that was
\* found: no shuffle, backup or late reading loses one (findLeastCostPath,
\* permuteAprilTagsList, checkAction).
EndsAfterEveryTag ==
  returned => /\ numberOfTagsFound = numberOfAprilTagLocations
              /\ {listOfTagsFound[i] : i \in Cells} \subseteq hit

\* What the comment of readCameraInfo says: a tag in the i'th place of
\* listOfTagsFound is the one in the i'th cell of locations.
ReadingsGoToTheirTag ==
  \A i \in Cells : listOfTagsFound[i] # NoTag => locations[i].name = listOfTagsFound[i]
=============================================================================
