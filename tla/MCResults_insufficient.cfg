CONSTANTS
    Averages = {0, 100, 200}
    Drifts = {0, 6}
SPECIFICATION Spec
INVARIANT InsufficientDataLabelled
