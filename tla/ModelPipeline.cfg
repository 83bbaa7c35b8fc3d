\* Two events outside make (changes of a source, kills, certifications, forced
\* trainings, deletions) at any moment of any number of makes.
CONSTANTS
    Goals = {"pipeline"}
    MaxChanges = 2
SPECIFICATION Spec
INVARIANTS
    ServedWasCertified
    
    ModelsCoherent
