SPECIFICATION Spec
CONSTANTS
    Off = Off
PROPERTIES WorkGetsDone GraphConverges EventsArrive StopsComplete
CHECK_DEADLOCK FALSE
